---- MODULE Spec2Model ----
(***************************************************************************)
(* Arena Market: the shop's transactional state engine.                    *)
(*                                                                         *)
(* MarketStore.purchaseItem / reserveItem (market-store.js), the world     *)
(* settings they read and write (config.js), the GM request handler of     *)
(* the ready hook (module.js) and the player's request emission           *)
(* (player-shop.js) are modelled as a state machine whose steps are the    *)
(* maximal synchronous runs of the JavaScript between two awaits.          *)
(*                                                                         *)
(* Host behaviour the code relies on but does not fix:                     *)
(*  - game.settings.get may hand out the cached setting object itself or   *)
(*    a structural copy; hostShares is that choice, drawn in Init.         *)
(*  - an awaited document or setting write takes effect, in every          *)
(*    session, at the step where the awaiting function resumes.            *)
(***************************************************************************)
EXTENDS Integers, Sequences, FiniteSets, TLC

(* ------------------------------------------------------------------ *)
(* Universe and bounds                                                 *)
(* ------------------------------------------------------------------ *)
Actors == {"A", "B"}
NoActor == "ghost"
ActorIds == Actors \cup {NoActor}

CatalogItems == {"blade", "relic", "tonic", "rope"}
NoItem == "gone"
ItemUuids == CatalogItems \cup {NoItem}

GMUsers == {"gm1", "gm2"}
Players == {"p1"}

MaxReq == 2          \* requests in the shop with one GM session
MaxReqReserve == 3   \* requests in the reservation scenario
MaxReqGMs == 1       \* requests in the shop with two GM sessions
MaxReqAdmin == 1     \* requests while the GM edits the shop
MaxReqResults == 1   \* requests whose results are followed to the sessions
MaxReqLog == 2       \* requests logged into a full activity log
MaxReqSaved == 1     \* requests against each saved entry
MaxReqFaults == 1    \* requests whose collaborators may fail
MaxReqLive == 2      \* purchases whose collaborators all respond
MaxReqStock == 1     \* purchases against each stored entry
MaxReqNoGM == 2      \* requests made before or after a GM session connects
MaxGMOps == 1        \* GM operations
MaxAdminOps == 2     \* GM operations while the GM edits the shop
MaxLogOps == 2       \* deletions and clears in the GM's log view
InitGold == 3        \* each actor's starting gold
StockInputs == {-1, 0, 2}     \* values passed to updateStock
QuantityTexts == {"2", "-1", "0", ""}   \* text typed into a quantity field
PriceTexts == {"", "2"}       \* text typed into a custom price field
AdminItems == {"blade", "rope"}   \* rows the GM edits

MaxOf(a, b) == IF a >= b THEN a ELSE b
ReqIds == 1..MaxOf(MaxOf(MaxOf(MaxReq, MaxReqAdmin), MaxOf(MaxReqReserve, MaxReqGMs)),
                 MaxOf(MaxReqResults, MaxOf(MaxReqLog, MaxOf(MaxReqSaved, MaxOf(MaxReqFaults, MaxOf(MaxReqLive, MaxOf(MaxReqStock, MaxReqNoGM)))))))
Keys == ReqIds \X GMUsers

BusSessions == {"gm1", "p1"}                      \* sessions on the event bus
BusEvents == {"shopStateChanged", "itemPurchased"}  \* two of SOCKET_EVENTS
CallbackIds == {"render", "faulty"}               \* listeners; "faulty" throws
MaxListeners == 2    \* registrations at a time, over all sessions
MaxCalls == 3        \* direct calls of a ledger function
MaxEmits == 1        \* SocketHandler.emit calls

(* ------------------------------------------------------------------ *)
(* JavaScript values                                                   *)
(* ------------------------------------------------------------------ *)
\* null is the empty tuple, a present value v is <<v>>; an undefined whose
\* only uses treat it as null (??, ||, === null checks aside) is the empty tuple too
Nothing == << >>
Just(v) == << v >>
Val(m) == m[1]
\* the value of a key the object does not have, where it differs from null
Undefined == << "undefined", "undefined" >>
\* a ?? b
Coalesce(a, b) == IF a \notin {Nothing, Undefined} THEN a ELSE b

AVAILABILITY_TYPES ==
    [UNLIMITED |-> "unlimited", LIMITED |-> "limited", RESERVATION |-> "reservation"]

LogCap == 500

MsgActorNotFound == "Actor not found"
MsgItemNotFound == "Item not found"
MsgItemNotConfigured == "Item not configured in shop"
MsgItemSoldOut == "ARENA_MARKET.Notifications.ItemSoldOut"
MsgNotEnoughGold == "ARENA_MARKET.Notifications.NotEnoughGold"
MsgPurchaseSuccess == "ARENA_MARKET.Notifications.PurchaseSuccess"
MsgNotReservable == "Item is not available for reservation"
MsgAlreadyReserved == "Hai gia prenotato questo oggetto!"
MsgReservationSuccess == "ARENA_MARKET.Notifications.ReservationSuccess"

\* item.system.price.value of the catalog item
BasePrice(uuid) ==
    CASE uuid = "blade" -> Just(1)
      [] uuid = "tonic" -> Just(2)
      [] uuid = "relic" -> Just(1)
      [] OTHER -> Nothing

\* the user holding OWNER (3) on the actor, if any
OwnerName(actorId) == IF actorId = "A" THEN "p1" ELSE "Unknown"

VARIABLES
    hostShares,     \* TRUE: settings.get returns the cached object itself
    gms,            \* GM users whose session ran the ready hook
    shopOpen,       \* world setting shopOpen
    shopConfig,     \* world setting shopConfig, as held by each GM session
    reservations,   \* world setting reservations, as held by each GM session
    activityLog,    \* world setting activityLog, as held by each GM session
    stale,          \* config objects still referenced by a suspended call
    gold,           \* actor.system.currency.gp
    inventory,      \* embedded Item documents of each actor, per catalog item
    reqs,           \* purchase / reservation actions taken by users
    inbox,          \* socket messages not yet handled, per GM session
    txn,            \* one purchaseItem / reserveItem call per (request, session)
    socket,         \* messages emitted by the GM handler
    gmOps,          \* GM operations performed (bounded)
    adminWrites,    \* shop configuration writes made by the GM
    manager,        \* the ShopManager singleton of each GM session, once built
    delivered,      \* (message, user): the user's session received the message
    notified,       \* (user, message): the result handler of the session acted
    echoes,         \* TRUE: the transport also delivers a message to its sender
    inited,         \* sessions that ran SocketHandler.init
    callbacks,      \* SocketHandler._callbacks of each session
    emitted,        \* the SocketHandler.emit calls made, in order
    wire,           \* (emit, session): a broadcast copy not yet delivered
    calls,          \* the callback invocations of each session, in order
    escaped,        \* emit calls that ended with an error thrown to the caller
    returned,       \* what the last direct call of a ledger function returned
    logWrites       \* activity-log writes of the GM's log view awaiting settings.set

vars == << hostShares, gms, shopOpen, shopConfig, reservations, activityLog, stale,
           gold, inventory, reqs, inbox, txn, socket, gmOps, adminWrites, manager,
           delivered, notified, echoes, inited, callbacks, emitted, wire, calls,
           escaped, returned, logWrites >>

(* ------------------------------------------------------------------ *)
(* Shop ledger                                                         *)
(* ------------------------------------------------------------------ *)
Entry(av, q, cp, cs) ==
    [availability |-> av, quantity |-> q, customPrice |-> cp, currentStock |-> cs]

\* the configuration the GM saved in an earlier session (ShopManager._onSaveConfig
\* writes exactly these entries): a limited blade with one in stock, a relic on
\* reservation, an unlimited tonic; the rope is in the catalog but not in the shop
InitShopConfig ==
    [compendiums |-> {"pack"},
     items |-> [u \in CatalogItems |->
        CASE u = "blade" -> Just(Entry(AVAILABILITY_TYPES.LIMITED, Just(1), Nothing, Just(1)))
          [] u = "relic" -> Just(Entry(AVAILABILITY_TYPES.RESERVATION, Just(1), Nothing, Nothing))
          [] u = "tonic" -> Just(Entry(AVAILABILITY_TYPES.UNLIMITED, Just(1), Nothing, Nothing))
          [] OTHER -> Nothing]]

getShopConfig(s) == shopConfig[s]
getReservations(s) == reservations[s]
getActivityLog(s) == activityLog[s]
isShopOpen == shopOpen

\* config.items?.[itemUuid] || null
getItemConfig(config, itemUuid) ==
    IF itemUuid \in DOMAIN config.items THEN config.items[itemUuid] ELSE Nothing

\* itemConfig.customPrice || base price: a custom price of 0 is passed over
getItemPriceTruthy(itemUuid, itemConfig) ==
    IF itemConfig # Nothing /\ Val(itemConfig).customPrice # Nothing
       /\ Val(Val(itemConfig).customPrice) # 0
    THEN Val(Val(itemConfig).customPrice)
    ELSE IF BasePrice(itemUuid) # Nothing THEN Val(BasePrice(itemUuid)) ELSE 0

getItemPrice(itemUuid, itemConfig) ==
    IF itemConfig # Nothing /\ Val(itemConfig).customPrice # Nothing
    THEN Val(Val(itemConfig).customPrice)
    ELSE IF BasePrice(itemUuid) # Nothing THEN Val(BasePrice(itemUuid)) ELSE 0

\* the stored stock whatever the availability
getAvailableStockAnyMode(config, itemUuid) ==
    LET itemConfig == getItemConfig(config, itemUuid) IN
    IF itemConfig = Nothing THEN Nothing
    ELSE Coalesce(Coalesce(Val(itemConfig).currentStock, Val(itemConfig).quantity), Just(0))

getAvailableStock(config, itemUuid) ==
    LET itemConfig == getItemConfig(config, itemUuid) IN
    IF itemConfig = Nothing THEN Nothing
    ELSE IF Val(itemConfig).availability = AVAILABILITY_TYPES.UNLIMITED THEN Nothing
    ELSE Coalesce(Coalesce(Val(itemConfig).currentStock, Val(itemConfig).quantity), Just(0))

canAfford(actorGold, price) == actorGold >= price

\* (itemConfig.currentStock ?? itemConfig.quantity): a number, or the null or
\* undefined that quantity is
StockOf(entry) == Coalesce(entry.currentStock, entry.quantity)

\* a stock check that rejects nothing
NeverSoldOut(entry) == FALSE

\* (itemConfig.currentStock ?? itemConfig.quantity) <= 0: undefined <= 0 is
\* false (NaN), null <= 0 is true (0)
SoldOutCheck(entry) ==
    IF StockOf(entry) = Undefined THEN FALSE
    ELSE IF StockOf(entry) = Nothing THEN TRUE
    ELSE Val(StockOf(entry)) <= 0

(* ------------------------------------------------------------------ *)
(* Calls in flight                                                     *)
(* ------------------------------------------------------------------ *)
NoResult == [success |-> FALSE, message |-> "", newStock |-> Nothing]

IdleTxn ==
    [pc |-> "idle", cfgAt |-> -1, arg |-> Nothing, price |-> 0,
     result |-> NoResult, writes |-> 0, openAtStart |-> TRUE]

Sess(k) == k[2]
Req(k) == reqs[k[1]]
InFlight(t) == t.pc \notin {"idle", "done", "threw"}

\* the config object a suspended purchaseItem holds in `config`
ObjAt(s, ref) == IF ref = 0 THEN shopConfig[s] ELSE Val(stale[s][ref])

MinOf(S) == CHOOSE x \in S : \A y \in S : x <= y

\* calls of session s whose `config` is the session's cached setting object
Holders(tx, s) == {r \in ReqIds : InFlight(tx[<<r, s>>]) /\ tx[<<r, s>>].cfgAt = 0}

\* The setting document is re-initialised with a new value: the cached object
\* is replaced, and calls that hold the old one keep it (old[s] is its content).
DetachTxn(tx, k) ==
    IF k[1] \in Holders(tx, k[2])
    THEN [tx[k] EXCEPT !.cfgAt = MinOf(Holders(tx, k[2]))]
    ELSE tx[k]

DetachStale(tx, st, old) ==
    [s \in GMUsers |->
        IF Holders(tx, s) = {} THEN st[s]
        ELSE [st[s] EXCEPT ![MinOf(Holders(tx, s))] = Just(old[s])]]

\* objects no suspended call references are dropped
Collect(tx, st) ==
    [s \in GMUsers |-> [r \in ReqIds |->
        IF \E r2 \in ReqIds : InFlight(tx[<<r2, s>>]) /\ tx[<<r2, s>>].cfgAt = r
        THEN st[s][r] ELSE Nothing]]

Finish(t, res) ==
    [t EXCEPT !.pc = "done", !.cfgAt = -1, !.arg = Nothing, !.price = 0, !.result = res]

Failure(msg) == [success |-> FALSE, message |-> msg, newStock |-> Nothing]

\* the world after the ready hook ran in the given GM sessions, with the
\* persisted shop configuration, actors' gold and activity log, and the messages
\* on the module's channel
MarketStart(sessions, config, purse, log, channel) ==
    /\ hostShares \in BOOLEAN
    /\ gms = sessions
    /\ shopOpen = TRUE
    /\ shopConfig = [s \in GMUsers |-> config]
    /\ reservations = [s \in GMUsers |-> [u \in CatalogItems |-> << >>]]
    /\ activityLog = [s \in GMUsers |-> log]
    /\ stale = [s \in GMUsers |-> [r \in ReqIds |-> Nothing]]
    /\ gold = purse
    /\ inventory = [a \in Actors |-> [u \in CatalogItems |-> 0]]
    /\ reqs = << >>
    /\ inbox = {}
    /\ txn = [k \in Keys |-> IdleTxn]
    /\ socket = channel
    /\ gmOps = 0
    /\ adminWrites = 0
    /\ manager = [s \in GMUsers |-> Nothing]
    /\ delivered = {}
    /\ notified = {}
    /\ returned = Nothing
    /\ logWrites = {}

\* SocketHandler._callbacks = new Map(): no listener, nothing emitted
BusStart ==
    /\ inited = {}
    /\ callbacks = [s \in BusSessions |-> [e \in BusEvents |-> << >>]]
    /\ emitted = << >>
    /\ wire = {}
    /\ calls = [s \in BusSessions |-> << >>]
    /\ escaped = {}

StartWith(sessions, config, purse, log, channel) ==
    /\ MarketStart(sessions, config, purse, log, channel)
    /\ echoes = FALSE
    /\ BusStart

\* the GM has opened the shop (the registered default of shopOpen is false) and
\* saved InitShopConfig in an earlier session; nothing is logged or emitted yet
Start(sessions) ==
    StartWith(sessions, InitShopConfig, [a \in Actors |-> InitGold], << >>, {})

Init == Start({"gm1"})

(* ------------------------------------------------------------------ *)
(* Messages on the module's socket channel                             *)
(* ------------------------------------------------------------------ *)
Message(event, origin, itemUuid, value, result, targetUser) ==
    [event |-> event, origin |-> origin, itemUuid |-> itemUuid, value |-> value,
     result |-> result, targetUser |-> targetUser]

\* What follows the awaited call in its caller.  A forwarded request: the GM
\* handler emits the notification on success and always the result, addressed
\* to data.sender, a field the request does not carry.  A GM's own action:
\* only the notification on success.
Reply(k, rq, res) ==
    LET note == IF rq.action = "purchase"
                THEN Message("itemPurchased", k, rq.itemUuid, res.newStock, NoResult, Nothing)
                ELSE Message("itemReserved", k, rq.itemUuid, Nothing, NoResult, Nothing)
        answer == Message(IF rq.action = "purchase" THEN "purchaseResult" ELSE "reserveResult",
                          k, rq.itemUuid, Nothing, res, rq.sender)
    IN  (IF res.success THEN {note} ELSE {})
        \cup (IF rq.user \in GMUsers THEN {} ELSE {answer})

busVars == << echoes, inited, callbacks, emitted, wire, calls, escaped >>
clientVars == << delivered, notified, busVars, returned, logWrites >>
envVars == << hostShares, gms, shopOpen, gmOps, adminWrites, manager, clientVars >>
reqVars == << reqs, inbox >>
worldVars == << shopConfig, reservations, activityLog, gold, inventory >>

\* a return that turns into a failure when the shop was closed meanwhile
ReturnUnlessClosed(k, rq, t, res) ==
    LET r == IF isShopOpen THEN res ELSE Failure("Shop closed") IN
    /\ txn' = [txn EXCEPT ![k] = Finish(t, r)]
    /\ stale' = Collect(txn', stale)
    /\ socket' = socket \cup Reply(k, rq, r)

\* the call returns res to its caller, which replies
Return(k, rq, t, res) ==
    /\ txn' = [txn EXCEPT ![k] = Finish(t, res)]
    /\ stale' = Collect(txn', stale)
    /\ socket' = socket \cup Reply(k, rq, res)

\* a failure path that records the attempt in the activity log
FailLogged(k, rq, t, msg) ==
    /\ Return(k, rq, t, Failure(msg))
    /\ activityLog' = [activityLog EXCEPT ![k[2]] =
           << [type |-> "failure", actorId |-> rq.actorId, playerName |-> "Unknown",
               itemUuid |-> rq.itemUuid, price |-> Nothing, id |-> k] >> \o @]
    /\ UNCHANGED << shopConfig, reservations, gold, inventory >>

\* return { success: false, message }: nothing was written
Fail(k, rq, t, msg) ==
    /\ Return(k, rq, t, Failure(msg))
    /\ UNCHANGED worldVars

\* purchaseItem / reserveItem up to `await fromUuid(itemUuid)`
Begin(k, rq) ==
    LET t == [txn[k] EXCEPT !.openAtStart = isShopOpen] IN
    IF rq.actorId \notin Actors
    THEN Fail(k, rq, t, MsgActorNotFound)
    ELSE /\ txn' = [txn EXCEPT ![k] = [t EXCEPT !.pc = "awaitItem"]]
         /\ UNCHANGED << stale, socket, worldVars >>

Request(action, actorId, itemUuid, user) ==
    [action |-> action, actorId |-> actorId, itemUuid |-> itemUuid, user |-> user,
     sender |-> Nothing]

\* a player's session that records its own request in the activity log
PlayerRequestLogged(cap, p, action, actorId, itemUuid) ==
    /\ Len(reqs) < cap
    /\ isShopOpen
    /\ reqs' = Append(reqs, Request(action, actorId, itemUuid, p))
    /\ inbox' = inbox \cup {<<Len(reqs) + 1, s>> : s \in gms}
    /\ activityLog' = [s \in GMUsers |->
           << [type |-> action, actorId |-> actorId, playerName |-> p,
               itemUuid |-> itemUuid, price |-> Nothing, id |-> << 0, p >>] >>
           \o activityLog[s]]
    /\ UNCHANGED << envVars, shopConfig, reservations, gold, inventory, stale, txn, socket >>

\* a transport that keeps a request for the GM sessions that connect later
PlayerRequestReplayed(cap, p, action, actorId, itemUuid) ==
    /\ Len(reqs) < cap
    /\ isShopOpen
    /\ reqs' = Append(reqs, Request(action, actorId, itemUuid, p))
    /\ inbox' = inbox \cup {<<Len(reqs) + 1, s>> : s \in GMUsers}
    /\ UNCHANGED << envVars, worldVars, stale, txn, socket >>

\* PlayerShop._purchaseItem / _reserveItem in a player's session
PlayerRequest(cap, p, action, actorId, itemUuid) ==
    /\ Len(reqs) < cap
    /\ isShopOpen
    /\ reqs' = Append(reqs, Request(action, actorId, itemUuid, p))
    /\ inbox' = inbox \cup {<<Len(reqs) + 1, s>> : s \in gms}
    /\ UNCHANGED << envVars, worldVars, stale, txn, socket >>

\* PlayerShop._purchaseItem / _reserveItem in a GM's session
GMRequest(cap, g, action, actorId, itemUuid) ==
    /\ g \in gms
    /\ Len(reqs) < cap
    /\ isShopOpen
    /\ reqs' = Append(reqs, Request(action, actorId, itemUuid, g))
    /\ Begin(<<Len(reqs) + 1, g>>, Request(action, actorId, itemUuid, g))
    /\ UNCHANGED << envVars, inbox >>

\* the GM session's socket listener receives a request
GMHandle(k) ==
    /\ k \in inbox
    /\ inbox' = inbox \ {k}
    /\ Begin(k, Req(k))
    /\ UNCHANGED << envVars, reqs >>

(* ------------------------------------------------------------------ *)
(* addActivityLog, up to its awaited settings.set                      *)
(* ------------------------------------------------------------------ *)
LogEntry(type, k, rq, price) ==
    [type |-> type, actorId |-> rq.actorId, playerName |-> OwnerName(rq.actorId),
     itemUuid |-> rq.itemUuid, price |-> price, id |-> k]

\* an append that never drops an entry
addActivityLogUnbounded(log, entry) == << entry >> \o log

addActivityLog(log, entry) ==
    LET l == << entry >> \o log IN
    IF Len(l) > LogCap THEN SubSeq(l, 1, Len(l) - 1) ELSE l

\* the unshift (and pop) act on the array settings.get returned
LogInPlace(s, newLog) ==
    IF hostShares THEN [activityLog EXCEPT ![s] = newLog] ELSE activityLog

(* ------------------------------------------------------------------ *)
(* MarketStore.purchaseItem                                            *)
(* ------------------------------------------------------------------ *)
\* fromUuid resolved: the checks, then `await actor.update(...)`
PurchaseResumeItem(k) ==
    /\ txn[k].pc = "awaitItem"
    /\ Req(k).action = "purchase"
    /\ LET rq == Req(k)
           s == Sess(k)
           config == getShopConfig(s)
           itemConfig == getItemConfig(config, rq.itemUuid)
           price == getItemPrice(rq.itemUuid, itemConfig)
           currentGold == gold[rq.actorId]
       IN  IF rq.itemUuid = NoItem
           THEN Fail(k, rq, txn[k], MsgItemNotFound)
           ELSE IF itemConfig = Nothing
           THEN Fail(k, rq, txn[k], MsgItemNotConfigured)
           ELSE IF Val(itemConfig).availability = AVAILABILITY_TYPES.LIMITED
                   /\ SoldOutCheck(Val(itemConfig))
           THEN Fail(k, rq, txn[k], MsgItemSoldOut)
           ELSE IF ~canAfford(currentGold, price)
           THEN Fail(k, rq, txn[k], MsgNotEnoughGold)
           ELSE /\ txn' = [txn EXCEPT ![k] =
                            [@ EXCEPT !.pc = "awaitGold", !.price = price,
                                      !.arg = Just(currentGold - price),
                                      !.cfgAt = IF hostShares THEN 0 ELSE k[1]]]
                /\ stale' = IF hostShares THEN stale
                            ELSE [stale EXCEPT ![s][k[1]] = Just(config)]
                /\ UNCHANGED << socket, worldVars >>
    /\ UNCHANGED << envVars, reqVars >>

\* actor.update resolved: the gold is deducted; `await createEmbeddedDocuments`
PurchaseGoldUpdated(k) ==
    /\ txn[k].pc = "awaitGold"
    /\ gold' = [gold EXCEPT ![Req(k).actorId] = Val(txn[k].arg)]
    /\ txn' = [txn EXCEPT ![k] = [@ EXCEPT !.pc = "awaitGrant", !.arg = Nothing,
                                           !.writes = @ + 1]]
    /\ UNCHANGED << envVars, reqVars, stale, socket, shopConfig, reservations,
                    activityLog, inventory >>

\* (itemConfig.currentStock ?? itemConfig.quantity) - 1: undefined - 1 is NaN,
\* which is stored as null; null - 1 is -1
NewStock(entry) ==
    IF StockOf(entry) = Undefined THEN Nothing
    ELSE IF StockOf(entry) = Nothing THEN Just(-1)
    ELSE Just(Val(StockOf(entry)) - 1)

\* createEmbeddedDocuments resolved: the item is granted; a limited item's
\* stock is written into the held config object and `await setShopConfig`,
\* otherwise `await addActivityLog`
PurchaseGranted(k) ==
    /\ txn[k].pc = "awaitGrant"
    /\ LET rq == Req(k)
           s == Sess(k)
           ref == txn[k].cfgAt
           obj == ObjAt(s, ref)
           entry == Val(obj.items[rq.itemUuid])
           newObj == [obj EXCEPT !.items[rq.itemUuid] =
                        Just([entry EXCEPT !.currentStock = NewStock(entry)])]
           newLog == addActivityLog(getActivityLog(s),
                        LogEntry("purchase", k, rq, Just(txn[k].price)))
       IN  /\ inventory' = [inventory EXCEPT ![rq.actorId][rq.itemUuid] = @ + 1]
           /\ IF entry.availability = AVAILABILITY_TYPES.LIMITED
              THEN /\ shopConfig' = IF ref = 0 THEN [shopConfig EXCEPT ![s] = newObj]
                                    ELSE shopConfig
                   /\ stale' = IF ref = 0 THEN stale
                               ELSE [stale EXCEPT ![s][ref] = Just(newObj)]
                   /\ txn' = [txn EXCEPT ![k] = [@ EXCEPT !.pc = "awaitConfig",
                                !.arg = Just(newObj), !.writes = @ + 1]]
                   /\ UNCHANGED activityLog
              ELSE /\ activityLog' = LogInPlace(s, newLog)
                   /\ txn' = [txn EXCEPT ![k] = [@ EXCEPT !.pc = "awaitLog",
                                !.arg = Just(newLog), !.writes = @ + 1]]
                   /\ UNCHANGED << shopConfig, stale >>
    /\ UNCHANGED << envVars, reqVars, socket, gold, reservations >>

\* setShopConfig resolved: the setting holds the written config in every
\* session; then `await addActivityLog`
PurchaseConfigSaved(k) ==
    /\ txn[k].pc = "awaitConfig"
    /\ LET rq == Req(k)
           s == Sess(k)
           tx1 == [kk \in Keys |-> DetachTxn(txn, kk)]
           newLog == addActivityLog(getActivityLog(s),
                        LogEntry("purchase", k, rq, Just(txn[k].price)))
       IN  /\ shopConfig' = [g \in GMUsers |-> Val(txn[k].arg)]
           /\ stale' = DetachStale(txn, stale, shopConfig)
           /\ activityLog' = LogInPlace(s, newLog)
           /\ txn' = [tx1 EXCEPT ![k] = [@ EXCEPT !.pc = "awaitLog",
                        !.arg = Just(newLog), !.writes = @ + 1]]
    /\ UNCHANGED << envVars, reqVars, socket, gold, inventory, reservations >>

\* addActivityLog resolved: the sound plays and the call returns success
PurchaseLogSaved(k) ==
    /\ txn[k].pc = "awaitLog"
    /\ Req(k).action = "purchase"
    /\ LET rq == Req(k)
           s == Sess(k)
           obj == ObjAt(s, txn[k].cfgAt)
           entry == Val(obj.items[rq.itemUuid])
           res == [success |-> TRUE, message |-> MsgPurchaseSuccess,
                   newStock |-> IF entry.availability = AVAILABILITY_TYPES.LIMITED
                                THEN entry.currentStock ELSE Nothing]
       IN  /\ activityLog' = [g \in GMUsers |-> Val(txn[k].arg)]
           /\ Return(k, rq, [txn[k] EXCEPT !.writes = @ + 1], res)
    /\ UNCHANGED << envVars, reqVars, shopConfig, reservations, gold, inventory >>

(* ------------------------------------------------------------------ *)
(* MarketStore.reserveItem                                             *)
(* ------------------------------------------------------------------ *)
\* a lookup that never finds the actor
NeverReserved(res, itemUuid, actorId) == FALSE

\* reservations[itemUuid]?.find(r => r.actorId === actorId)
ExistingReservation(res, itemUuid, actorId) ==
    \E i \in 1..Len(res[itemUuid]) : res[itemUuid][i].actorId = actorId

\* a write that keeps only the new record of the item
addReservationReplacing(res, itemUuid, actorId, playerName) ==
    [res EXCEPT ![itemUuid] = << [actorId |-> actorId, playerName |-> playerName] >>]

\* a rule that keeps one record per (item, actor) pair
addReservationIfAbsent(res, itemUuid, actorId, playerName) ==
    IF \E i \in 1..Len(res[itemUuid]) : res[itemUuid][i].actorId = actorId
    THEN res
    ELSE [res EXCEPT ![itemUuid] = Append(@, [actorId |-> actorId, playerName |-> playerName])]

\* addReservation up to its awaited settings.set: the push
addReservation(res, itemUuid, actorId, playerName) ==
    [res EXCEPT ![itemUuid] = Append(@, [actorId |-> actorId, playerName |-> playerName])]

\* a test of the mode that lets an item without entry through
WrongModeOnly(itemConfig) ==
    /\ itemConfig # Nothing
    /\ Val(itemConfig).availability # AVAILABILITY_TYPES.RESERVATION

\* !itemConfig || itemConfig.availability !== AVAILABILITY_TYPES.RESERVATION
NotReservable(itemConfig) ==
    \/ itemConfig = Nothing
    \/ Val(itemConfig).availability # AVAILABILITY_TYPES.RESERVATION

\* fromUuid resolved: the checks, then `await addReservation(...)`
ReserveResumeItem(k) ==
    /\ txn[k].pc = "awaitItem"
    /\ Req(k).action = "reserve"
    /\ LET rq == Req(k)
           s == Sess(k)
           itemConfig == getItemConfig(getShopConfig(s), rq.itemUuid)
           newRes == addReservation(getReservations(s), rq.itemUuid, rq.actorId,
                                    OwnerName(rq.actorId))
       IN  IF rq.itemUuid = NoItem
           THEN Fail(k, rq, txn[k], MsgItemNotFound)
           ELSE IF NotReservable(itemConfig)
           THEN Fail(k, rq, txn[k], MsgNotReservable)
           ELSE IF ExistingReservation(getReservations(s), rq.itemUuid, rq.actorId)
           THEN Fail(k, rq, txn[k], MsgAlreadyReserved)
           ELSE /\ reservations' = IF hostShares
                                   THEN [reservations EXCEPT ![s] = newRes]
                                   ELSE reservations
                /\ txn' = [txn EXCEPT ![k] = [@ EXCEPT !.pc = "awaitReservations",
                                                       !.arg = Just(newRes)]]
                /\ UNCHANGED << stale, socket, shopConfig, activityLog, gold, inventory >>
    /\ UNCHANGED << envVars, reqVars >>

\* addReservation resolved: the setting holds the written map in every
\* session; then `await addActivityLog`
ReserveSaved(k) ==
    /\ txn[k].pc = "awaitReservations"
    /\ LET rq == Req(k)
           s == Sess(k)
           newLog == addActivityLog(getActivityLog(s),
                        LogEntry("reservation", k, rq, Nothing))
       IN  /\ reservations' = [g \in GMUsers |-> Val(txn[k].arg)]
           /\ activityLog' = LogInPlace(s, newLog)
           /\ txn' = [txn EXCEPT ![k] = [@ EXCEPT !.pc = "awaitLog",
                        !.arg = Just(newLog), !.writes = @ + 1]]
    /\ UNCHANGED << envVars, reqVars, stale, socket, shopConfig, gold, inventory >>

\* addActivityLog resolved: the call returns success
ReserveLogSaved(k) ==
    /\ txn[k].pc = "awaitLog"
    /\ Req(k).action = "reserve"
    /\ activityLog' = [g \in GMUsers |-> Val(txn[k].arg)]
    /\ Return(k, Req(k), [txn[k] EXCEPT !.writes = @ + 1],
              [success |-> TRUE, message |-> MsgReservationSuccess, newStock |-> Nothing])
    /\ UNCHANGED << envVars, reqVars, shopConfig, reservations, gold, inventory >>

\* `await addReservation(itemUuid, actorId, actorName, playerName)` called on
\* its own in session g, through to the resolved settings.set; the function
\* has no return statement
addReservationCall(cap, g, itemUuid, actorId) ==
    /\ g \in gms
    /\ gmOps < cap
    /\ gmOps' = gmOps + 1
    /\ reservations' = [s \in GMUsers |->
          addReservation(getReservations(g), itemUuid, actorId, OwnerName(actorId))]
    /\ returned' = Nothing
    /\ UNCHANGED << hostShares, gms, shopOpen, adminWrites, manager, delivered,
                    notified, busVars, reqVars, shopConfig, activityLog, gold,
                    inventory, stale, txn, socket, logWrites >>

(* ------------------------------------------------------------------ *)
(* A collaborator fails                                                *)
(* ------------------------------------------------------------------ *)
\* the awaits of purchaseItem / reserveItem on a mutation: actor.update,
\* createEmbeddedDocuments, setShopConfig, addReservation, addActivityLog
MutationAwaits ==
    {"awaitGold", "awaitGrant", "awaitConfig", "awaitReservations", "awaitLog"}

\* a rejection after which the price deducted by the purchase is given back
CollaboratorRejectsRefunding(k) ==
    /\ txn[k].pc \in MutationAwaits
    /\ txn' = [txn EXCEPT ![k] = [@ EXCEPT !.pc = "threw", !.cfgAt = -1, !.arg = Nothing]]
    /\ stale' = Collect(txn', stale)
    /\ gold' = IF txn[k].pc = "awaitGrant"
               THEN [gold EXCEPT ![Req(k).actorId] = @ + txn[k].price]
               ELSE gold
    /\ UNCHANGED << envVars, reqVars, shopConfig, reservations, activityLog,
                    inventory, socket >>

\* The awaited promise rejects: nothing was stored, the `await` throws, and
\* as the call has no try / catch its own promise rejects.  The caller (the GM
\* socket listener or _purchaseItem / _reserveItem) awaits it without a
\* try / catch either, so neither a result nor a notification is emitted.
CollaboratorRejects(k) ==
    /\ txn[k].pc \in MutationAwaits
    /\ txn' = [txn EXCEPT ![k] = [@ EXCEPT !.pc = "threw", !.cfgAt = -1, !.arg = Nothing]]
    /\ stale' = Collect(txn', stale)
    /\ UNCHANGED << envVars, reqVars, worldVars, socket >>

(* ------------------------------------------------------------------ *)
(* GM operations                                                       *)
(* ------------------------------------------------------------------ *)
\* ShopManager._onToggleShop: toggleShop() and the shopStateChanged notification
toggleShop(cap, g) ==
    /\ g \in gms
    /\ gmOps < cap
    /\ gmOps' = gmOps + 1
    /\ shopOpen' = ~isShopOpen
    /\ socket' = socket \cup
         {Message("shopStateChanged", <<0, g>>, NoItem, Just(~isShopOpen), NoResult, Nothing)}
    /\ UNCHANGED << hostShares, gms, adminWrites, manager, reqVars, worldVars, stale, txn,
                    clientVars >>

\* MarketStore.updateStock
updateStock(cap, g, itemUuid, newStock) ==
    /\ g \in gms
    /\ gmOps < cap
    /\ gmOps' = gmOps + 1
    /\ LET config == getShopConfig(g)
           itemConfig == getItemConfig(config, itemUuid)
           written == [config EXCEPT !.items[itemUuid] =
                         Just([Val(itemConfig) EXCEPT !.currentStock = Just(newStock)])]
       IN  IF itemConfig = Nothing
           THEN UNCHANGED << shopConfig, stale, txn, adminWrites >>
           ELSE /\ shopConfig' = [s \in GMUsers |-> written]
                /\ stale' = DetachStale(txn, stale,
                               IF hostShares THEN [shopConfig EXCEPT ![g] = written]
                               ELSE shopConfig)
                /\ txn' = [k \in Keys |-> DetachTxn(txn, k)]
                /\ adminWrites' = adminWrites + 1
    /\ UNCHANGED << hostShares, gms, shopOpen, manager, reqVars, socket, reservations,
                    activityLog, gold, inventory, clientVars >>

(* ------------------------------------------------------------------ *)
(* ShopManager: the admin form                                         *)
(* ------------------------------------------------------------------ *)
\* parseInt / parseFloat of the field's text; NaN is Nothing
parseInt(text) ==
    CASE text = "2" -> Just(2)
      [] text = "-1" -> Just(-1)
      [] text = "0" -> Just(0)
      [] OTHER -> Nothing
parseFloat(text) == IF text = "2" THEN Just(2) ELSE Nothing

\* m || d for a number: 0 and NaN are falsy
OrElse(m, d) == IF m = Nothing \/ Val(m) = 0 THEN d ELSE Val(m)

\* a row of _itemConfigs; a field that was never assigned is Nothing
FormEntry(av, q, cp, cs) ==
    [availability |-> av, quantity |-> q, customPrice |-> cp, currentStock |-> cs]
EmptyFormEntry == FormEntry(Nothing, Nothing, Nothing, Nothing)

\* foundry.utils.deepClone(config.items || {})
deepClone(items) ==
    [u \in CatalogItems |->
        IF items[u] = Nothing THEN Nothing
        ELSE Just(FormEntry(Just(Val(items[u]).availability), Val(items[u]).quantity,
                            Val(items[u]).customPrice, Val(items[u]).currentStock))]

\* the constructor's _loadConfig
loadConfig(config) ==
    [selectedCompendiums |-> config.compendiums, itemConfigs |-> deepClone(config.items)]

\* if (!this._itemConfigs[uuid]) this._itemConfigs[uuid] = {}
RowOf(form, uuid) ==
    IF form.itemConfigs[uuid] = Nothing THEN EmptyFormEntry ELSE Val(form.itemConfigs[uuid])

\* ShopManager.open(): getInstance builds the singleton on first use
ShopManagerOpen(g) ==
    /\ g \in gms
    /\ manager[g] = Nothing
    /\ manager' = [manager EXCEPT ![g] = Just(loadConfig(getShopConfig(g)))]
    /\ UNCHANGED << hostShares, gms, shopOpen, gmOps, adminWrites, reqVars, worldVars,
                    stale, txn, socket, clientVars >>

\* a change handler of the open form assigns into the row
EditRow(cap, g, uuid, row) ==
    /\ g \in gms
    /\ manager[g] # Nothing
    /\ gmOps < cap
    /\ gmOps' = gmOps + 1
    /\ manager' = [manager EXCEPT ![g] =
                      Just([Val(manager[g]) EXCEPT !.itemConfigs[uuid] = Just(row)])]
    /\ UNCHANGED << hostShares, gms, shopOpen, adminWrites, reqVars, worldVars,
                    stale, txn, socket, clientVars >>

onAvailabilityChange(cap, g, uuid, value) ==
    /\ manager[g] # Nothing
    /\ EditRow(cap, g, uuid,
               [RowOf(Val(manager[g]), uuid) EXCEPT !.availability = Just(value)])

onQuantityChange(cap, g, uuid, text) ==
    /\ manager[g] # Nothing
    /\ LET value == OrElse(parseInt(text), 1) IN
       EditRow(cap, g, uuid,
               [RowOf(Val(manager[g]), uuid) EXCEPT !.quantity = Just(value),
                                                   !.currentStock = Just(value)])

onCustomPriceChange(cap, g, uuid, text) ==
    /\ manager[g] # Nothing
    /\ EditRow(cap, g, uuid,
               [RowOf(Val(manager[g]), uuid) EXCEPT
                    !.customPrice = IF text = "" THEN Nothing ELSE parseFloat(text)])

\* the entry _onSaveConfig builds from a row
SavedEntry(row) ==
    Entry(IF row.availability = Nothing THEN AVAILABILITY_TYPES.UNLIMITED
          ELSE Val(row.availability),
          Just(OrElse(row.quantity, 1)),
          row.customPrice,
          Coalesce(row.currentStock, row.quantity))

\* a save that keeps the stored stock of the entries it rewrites
BuiltConfigKeepingStock(form) ==
    [compendiums |-> form.selectedCompendiums,
     items |-> [u \in CatalogItems |->
        IF form.itemConfigs[u] = Nothing THEN Nothing
        ELSE Just([SavedEntry(Val(form.itemConfigs[u])) EXCEPT
                     !.currentStock = IF shopConfig["gm1"].items[u] = Nothing THEN @
                                      ELSE Val(shopConfig["gm1"].items[u]).currentStock])]]

BuiltConfig(form) ==
    [compendiums |-> form.selectedCompendiums,
     items |-> [u \in CatalogItems |->
        IF form.itemConfigs[u] = Nothing THEN Nothing
        ELSE Just(SavedEntry(Val(form.itemConfigs[u])))]]

\* ShopManager._onSaveConfig: setShopConfig(config), configUpdated, close()
onSaveConfig(cap, g) ==
    /\ g \in gms
    /\ manager[g] # Nothing
    /\ gmOps < cap
    /\ gmOps' = gmOps + 1
    /\ shopConfig' = [s \in GMUsers |-> BuiltConfig(Val(manager[g]))]
    /\ stale' = DetachStale(txn, stale, shopConfig)
    /\ txn' = [k \in Keys |-> DetachTxn(txn, k)]
    /\ adminWrites' = adminWrites + 1
    /\ socket' = socket \cup
         {Message("configUpdated", <<0, g>>, NoItem, Nothing, NoResult, Nothing)}
    /\ UNCHANGED << hostShares, gms, shopOpen, manager, reqVars, reservations,
                    activityLog, gold, inventory, clientVars >>

(* ------------------------------------------------------------------ *)
(* The result handler every session registers in the ready hook        *)
(* ------------------------------------------------------------------ *)
ResultEvents == {"purchaseResult", "reserveResult"}

\* a handler that does not look at the recipient tag
ActsOnAnyResult(m, u) == m.event \in ResultEvents

\* data.targetUser === game.user.id, and the action is a result
ActsOn(m, u) == m.targetUser = Just(u) /\ m.event \in ResultEvents

\* the session of user u receives a message of the module's channel and its
\* result handler runs
ResultReceive(u) ==
    /\ u \in Players \cup gms
    /\ \E m \in socket :
          /\ << m, u >> \notin delivered
          /\ delivered' = delivered \cup {<< m, u >>}
          /\ notified' = IF ActsOn(m, u) THEN notified \cup {<< u, m >>} ELSE notified
    /\ UNCHANGED << hostShares, gms, shopOpen, gmOps, adminWrites, manager, reqVars,
                    worldVars, stale, txn, socket, busVars, returned, logWrites >>

(* ------------------------------------------------------------------ *)
(* SocketHandler: the event bus                                        *)
(* ------------------------------------------------------------------ *)
marketVars == << hostShares, gms, shopOpen, gmOps, adminWrites, manager, delivered,
                 notified, returned, logWrites, reqVars, worldVars, stale, txn,
                 socket >>

\* callback(payload) raises an error
Throws(c) == c = "faulty"

\* the loop of _handleMessage without its try / catch: the first error ends
\* the loop and leaves the function
DispatchUncaught(cbs) ==
    LET bad == {i \in 1..Len(cbs) : Throws(cbs[i])}
        first == CHOOSE i \in bad : \A j \in bad : i <= j
    IN  IF bad = {} THEN [ran |-> cbs, threw |-> FALSE]
        ELSE [ran |-> SubSeq(cbs, 1, first), threw |-> TRUE]

\* for (const callback of callbacks) { try { callback(payload) } catch (err)
\* { console.error(...) } }: an error is logged and the loop goes on
RECURSIVE RunCallbacks(_, _)
RunCallbacks(cbs, ran) ==
    IF cbs = << >> THEN [ran |-> ran, threw |-> FALSE]
    ELSE LET caught == Throws(Head(cbs)) IN
         RunCallbacks(Tail(cbs), Append(ran, Head(cbs)))

\* the callbacks one _handleMessage call invokes, and whether an error left it
Dispatch(cbs) == RunCallbacks(cbs, << >>)

\* _handleMessage({ event, payload }) in session s for emit call n
handleMessage(s, n, event) ==
    LET out == Dispatch(callbacks[s][event])
    IN  [ran |-> [i \in 1..Len(out.ran) |-> << n, out.ran[i] >>], threw |-> out.threw]

\* the sessions the transport delivers a message of session s to
Recipients(s) == {r \in BusSessions : r # s \/ echoes}

\* SocketHandler.init(): game.socket.on(`module.${MODULE_ID}`, ...)
init(s) ==
    /\ s \notin inited
    /\ inited' = inited \cup {s}
    /\ UNCHANGED << marketVars, echoes, callbacks, emitted, wire, calls, escaped >>

\* the registrations in the lists of the given (session, event) pairs
RECURSIVE Registered(_)
Registered(lists) ==
    IF lists = {} THEN 0
    ELSE LET l == CHOOSE x \in lists : TRUE
         IN  Len(callbacks[l[1]][l[2]]) + Registered(lists \ {l})

\* SocketHandler.on(event, callback): push
on(s, event, callback) ==
    /\ Registered(BusSessions \X BusEvents) < MaxListeners
    /\ callbacks' = [callbacks EXCEPT ![s][event] = Append(@, callback)]
    /\ UNCHANGED << marketVars, echoes, inited, emitted, wire, calls, escaped >>

\* callbacks.indexOf(callback), 0 for -1
IndexOf(cbs, callback) ==
    IF \E i \in 1..Len(cbs) : cbs[i] = callback
    THEN CHOOSE i \in 1..Len(cbs) :
            cbs[i] = callback /\ \A j \in 1..(i-1) : cbs[j] # callback
    ELSE 0

\* callbacks.splice(index, 1)
Splice(cbs, index) ==
    [i \in 1..(Len(cbs) - 1) |-> IF i < index THEN cbs[i] ELSE cbs[i + 1]]

\* an off that drops every listener of the event when it finds the callback
offEveryListener(s, event, callback) ==
    /\ callbacks' = IF IndexOf(callbacks[s][event], callback) > 0
                    THEN [callbacks EXCEPT ![s][event] = << >>]
                    ELSE callbacks
    /\ UNCHANGED << marketVars, echoes, inited, emitted, wire, calls, escaped >>

\* SocketHandler.off(event, callback)
off(s, event, callback) ==
    /\ LET cbs == callbacks[s][event]
           index == IndexOf(cbs, callback)
       IN  callbacks' = IF index > 0
                        THEN [callbacks EXCEPT ![s][event] = Splice(cbs, index)]
                        ELSE callbacks
    /\ UNCHANGED << marketVars, echoes, inited, emitted, wire, calls, escaped >>

\* SocketHandler.emit(event, payload): game.socket.emit, then the local
\* _handleMessage, in one synchronous run
emit(s, event) ==
    /\ Len(emitted) < MaxEmits
    /\ LET n == Len(emitted) + 1
           out == handleMessage(s, n, event)
       IN  /\ emitted' = Append(emitted, [session |-> s, event |-> event,
                                          listeners |-> callbacks[s][event]])
           /\ wire' = wire \cup {<< n, r >> : r \in Recipients(s)}
           /\ calls' = [calls EXCEPT ![s] = @ \o out.ran]
           /\ escaped' = IF out.threw THEN escaped \cup {n} ELSE escaped
    /\ UNCHANGED << marketVars, echoes, inited, callbacks >>

\* the transport hands a broadcast copy to session r; the listener installed
\* by init calls _handleMessage(data)
BusDeliver(r) ==
    /\ \E n \in 1..Len(emitted) :
          /\ << n, r >> \in wire
          /\ wire' = wire \ {<< n, r >>}
          /\ calls' = IF r \in inited
                      THEN [calls EXCEPT ![r] = @ \o handleMessage(r, n, emitted[n].event).ran]
                      ELSE calls
    /\ UNCHANGED << marketVars, echoes, inited, callbacks, emitted, escaped >>

(* ------------------------------------------------------------------ *)
(* A GM session connects                                               *)
(* ------------------------------------------------------------------ *)
\* Hooks.once('ready') in the session of GM g: SocketHandler.init() and the
\* request listener is put on the module's channel; the channel hands it the
\* messages emitted from then on
ready(g) ==
    /\ g \notin gms
    /\ gms' = gms \cup {g}
    /\ inited' = inited \cup {g}
    /\ UNCHANGED << hostShares, shopOpen, gmOps, adminWrites, manager, delivered,
                    notified, returned, logWrites, echoes, callbacks, emitted, wire,
                    calls, escaped, reqVars, worldVars, stale, txn, socket >>

(* ------------------------------------------------------------------ *)
(* The GM's log view: deleteActivityLogEntry and clearActivityLog      *)
(* ------------------------------------------------------------------ *)
\* log.findIndex(entry => entry.id === entryId), 0 for -1
findIndex(log, entryId) ==
    IF \E i \in 1..Len(log) : log[i].id = entryId
    THEN CHOOSE i \in 1..Len(log) :
            log[i].id = entryId /\ \A j \in 1..(i-1) : log[j].id # entryId
    ELSE 0

LogWrite(n, op, g, entryId, value) ==
    [n |-> n, op |-> op, session |-> g, entryId |-> entryId, value |-> value]

\* ShopManager._onDeleteEntry: deleteActivityLogEntry(entryId) up to its awaited
\* settings.set; the splice acts on the array settings.get returned; an id the
\* log does not hold writes nothing
deleteActivityLogEntry(cap, g, entryId) ==
    /\ g \in gms
    /\ gmOps < cap
    /\ gmOps' = gmOps + 1
    /\ LET log == getActivityLog(g)
           index == findIndex(log, entryId)
       IN  IF index > 0
           THEN /\ activityLog' = LogInPlace(g, Splice(log, index))
                /\ logWrites' = logWrites \cup
                      {LogWrite(gmOps + 1, "delete", g, entryId, Splice(log, index))}
           ELSE UNCHANGED << activityLog, logWrites >>
    /\ UNCHANGED << hostShares, gms, shopOpen, adminWrites, manager, delivered,
                    notified, busVars, returned, reqVars, shopConfig, reservations,
                    gold, inventory, stale, txn, socket >>

\* ShopManager._onClearLog, confirmed: clearActivityLog() up to its awaited
\* settings.set
clearActivityLog(cap, g) ==
    /\ g \in gms
    /\ gmOps < cap
    /\ gmOps' = gmOps + 1
    /\ logWrites' = logWrites \cup {LogWrite(gmOps + 1, "clear", g, Nothing, << >>)}
    /\ UNCHANGED << hostShares, gms, shopOpen, adminWrites, manager, delivered,
                    notified, busVars, returned, reqVars, worldVars, stale, txn,
                    socket >>

\* the settings.set of the n-th operation, a deletion or a clear, resolved:
\* the setting holds the written log in every session
LogWriteStored(n) ==
    /\ \E w \in logWrites :
          /\ w.n = n
          /\ logWrites' = logWrites \ {w}
          /\ activityLog' = [g \in GMUsers |-> w.value]
    /\ UNCHANGED << hostShares, gms, shopOpen, gmOps, adminWrites, manager, delivered,
                    notified, busVars, returned, reqVars, shopConfig, reservations,
                    gold, inventory, stale, txn, socket >>

(* ------------------------------------------------------------------ *)
(* The shop with one GM session                                        *)
(* ------------------------------------------------------------------ *)
Next ==
    \/ \E p \in Players, action \in {"purchase", "reserve"},
          a \in ActorIds, u \in ItemUuids : PlayerRequest(MaxReq, p, action, a, u)
    \/ \E g \in GMUsers, action \in {"purchase", "reserve"},
          a \in ActorIds, u \in ItemUuids : GMRequest(MaxReq, g, action, a, u)
    \/ \E k \in Keys : GMHandle(k)
    \/ \E k \in Keys : PurchaseResumeItem(k)
    \/ \E k \in Keys : PurchaseGoldUpdated(k)
    \/ \E k \in Keys : PurchaseGranted(k)
    \/ \E k \in Keys : PurchaseConfigSaved(k)
    \/ \E k \in Keys : PurchaseLogSaved(k)
    \/ \E k \in Keys : ReserveResumeItem(k)
    \/ \E k \in Keys : ReserveSaved(k)
    \/ \E k \in Keys : ReserveLogSaved(k)
    \/ \E g \in GMUsers : toggleShop(MaxGMOps, g)

Spec == Init /\ [][Next]_vars

(* ------------------------------------------------------------------ *)
(* The reservation scenario: reserve requests for the relic and the    *)
(* blade, handled by one GM session                                    *)
(* ------------------------------------------------------------------ *)
NextReserve ==
    \/ \E p \in Players, a \in Actors, u \in {"relic", "blade"} :
          PlayerRequest(MaxReqReserve, p, "reserve", a, u)
    \/ \E k \in Keys : GMHandle(k)
    \/ \E k \in Keys : ReserveResumeItem(k)
    \/ \E k \in Keys : ReserveSaved(k)
    \/ \E k \in Keys : ReserveLogSaved(k)

SpecReserve == Init /\ [][NextReserve]_vars

(* ------------------------------------------------------------------ *)
(* The shop with two GM sessions                                       *)
(* ------------------------------------------------------------------ *)
InitGMs == Start({"gm1", "gm2"})

NextGMs ==
    \/ \E p \in Players, action \in {"purchase", "reserve"},
          a \in ActorIds, u \in ItemUuids : PlayerRequest(MaxReqGMs, p, action, a, u)
    \/ \E k \in Keys : GMHandle(k)
    \/ \E k \in Keys : PurchaseResumeItem(k)
    \/ \E k \in Keys : PurchaseGoldUpdated(k)
    \/ \E k \in Keys : PurchaseGranted(k)
    \/ \E k \in Keys : PurchaseConfigSaved(k)
    \/ \E k \in Keys : PurchaseLogSaved(k)
    \/ \E k \in Keys : ReserveResumeItem(k)
    \/ \E k \in Keys : ReserveSaved(k)
    \/ \E k \in Keys : ReserveLogSaved(k)

SpecGMs == InitGMs /\ [][NextGMs]_vars

(* ------------------------------------------------------------------ *)
(* The shop is open and no GM session is connected; one connects at    *)
(* some point                                                          *)
(* ------------------------------------------------------------------ *)
InitNoGM == Start({})

NextNoGM ==
    \/ \E p \in Players, action \in {"purchase", "reserve"},
          a \in Actors, u \in {"blade", "relic"} :
          PlayerRequest(MaxReqNoGM, p, action, a, u)
    \/ ready("gm1")
    \/ \E k \in Keys : GMHandle(k)
    \/ \E k \in Keys : PurchaseResumeItem(k)
    \/ \E k \in Keys : PurchaseGoldUpdated(k)
    \/ \E k \in Keys : PurchaseGranted(k)
    \/ \E k \in Keys : PurchaseConfigSaved(k)
    \/ \E k \in Keys : PurchaseLogSaved(k)
    \/ \E k \in Keys : ReserveResumeItem(k)
    \/ \E k \in Keys : ReserveSaved(k)
    \/ \E k \in Keys : ReserveLogSaved(k)
    \/ \E u \in Players \cup GMUsers : ResultReceive(u)

SpecNoGM == InitNoGM /\ [][NextNoGM]_vars

(* ------------------------------------------------------------------ *)
(* The shop while the GM edits it: one purchase request, the admin     *)
(* form and direct stock updates                                       *)
(* ------------------------------------------------------------------ *)
NextAdmin ==
    \/ \E p \in Players, a \in Actors, u \in AdminItems :
          PlayerRequest(MaxReqAdmin, p, "purchase", a, u)
    \/ \E k \in Keys : GMHandle(k)
    \/ \E k \in Keys : PurchaseResumeItem(k)
    \/ \E k \in Keys : PurchaseGoldUpdated(k)
    \/ \E k \in Keys : PurchaseGranted(k)
    \/ \E k \in Keys : PurchaseConfigSaved(k)
    \/ \E k \in Keys : PurchaseLogSaved(k)
    \/ \E g \in GMUsers : ShopManagerOpen(g)
    \/ \E g \in GMUsers, u \in AdminItems,
          v \in {AVAILABILITY_TYPES.UNLIMITED, AVAILABILITY_TYPES.LIMITED} :
          onAvailabilityChange(MaxAdminOps, g, u, v)
    \/ \E g \in GMUsers, u \in AdminItems, text \in QuantityTexts :
          onQuantityChange(MaxAdminOps, g, u, text)
    \/ \E g \in GMUsers, u \in AdminItems, text \in PriceTexts :
          onCustomPriceChange(MaxAdminOps, g, u, text)
    \/ \E g \in GMUsers : onSaveConfig(MaxAdminOps, g)
    \/ \E g \in GMUsers, u \in AdminItems, n \in StockInputs :
          updateStock(MaxAdminOps, g, u, n)

SpecAdmin == Init /\ [][NextAdmin]_vars

(* ------------------------------------------------------------------ *)
(* Requests followed to their results: a player's request, its         *)
(* execution by the GM session, the delivery of the emitted messages   *)
(* ------------------------------------------------------------------ *)
NextResults ==
    \/ \E p \in Players, action \in {"purchase", "reserve"},
          a \in ActorIds, u \in ItemUuids : PlayerRequest(MaxReqResults, p, action, a, u)
    \/ \E k \in Keys : GMHandle(k)
    \/ \E k \in Keys : PurchaseResumeItem(k)
    \/ \E k \in Keys : PurchaseGoldUpdated(k)
    \/ \E k \in Keys : PurchaseGranted(k)
    \/ \E k \in Keys : PurchaseConfigSaved(k)
    \/ \E k \in Keys : PurchaseLogSaved(k)
    \/ \E k \in Keys : ReserveResumeItem(k)
    \/ \E k \in Keys : ReserveSaved(k)
    \/ \E k \in Keys : ReserveLogSaved(k)
    \/ \E u \in Players \cup GMUsers : ResultReceive(u)

SpecResults == Init /\ [][NextResults]_vars

(* ------------------------------------------------------------------ *)
(* The result handler on its own: one message on the module's channel, *)
(* of any action and with any recipient tag, delivered to the sessions *)
(* ------------------------------------------------------------------ *)
ChannelMessages ==
    {Message(event, << 1, "gm1" >>, "blade", Nothing, result, targetUser) :
        event \in ResultEvents \cup {"purchaseRequest", "itemPurchased"},
        result \in {Failure(MsgItemSoldOut),
                    [success |-> TRUE, message |-> MsgPurchaseSuccess, newStock |-> Just(0)]},
        targetUser \in {Nothing} \cup {Just(u) : u \in Players \cup GMUsers}}

InitHandler ==
    \E m \in ChannelMessages :
        StartWith({"gm1", "gm2"}, InitShopConfig, [a \in Actors |-> InitGold], << >>, {m})

NextHandler == \E u \in Players \cup GMUsers : ResultReceive(u)

SpecHandler == InitHandler /\ [][NextHandler]_vars

(* ------------------------------------------------------------------ *)
(* The activity log at its cap: the persisted log holds LogCap - 1 or  *)
(* LogCap entries when purchases and reservations are logged           *)
(* ------------------------------------------------------------------ *)
\* n entries of earlier sessions, newest first
OldLog(n) ==
    [i \in 1..n |-> [type |-> "purchase", actorId |-> "A", playerName |-> "p1",
                     itemUuid |-> "tonic", price |-> Just(2), id |-> << -i, "gm1" >>]]

InitLog ==
    \E n \in {LogCap - 1, LogCap} :
        StartWith({"gm1"}, InitShopConfig, [a \in Actors |-> InitGold], OldLog(n), {})

NextLog ==
    \/ \E p \in Players, a \in Actors : PlayerRequest(MaxReqLog, p, "purchase", a, "tonic")
    \/ \E p \in Players, a \in Actors : PlayerRequest(MaxReqLog, p, "reserve", a, "relic")
    \/ \E k \in Keys : GMHandle(k)
    \/ \E k \in Keys : PurchaseResumeItem(k)
    \/ \E k \in Keys : PurchaseGoldUpdated(k)
    \/ \E k \in Keys : PurchaseGranted(k)
    \/ \E k \in Keys : PurchaseLogSaved(k)
    \/ \E k \in Keys : ReserveResumeItem(k)
    \/ \E k \in Keys : ReserveSaved(k)
    \/ \E k \in Keys : ReserveLogSaved(k)

SpecLog == InitLog /\ [][NextLog]_vars

(* ------------------------------------------------------------------ *)
(* The GM edits the activity log while purchases and reservations are  *)
(* logged                                                              *)
(* ------------------------------------------------------------------ *)
\* ids the GM's log view can hand to deleteActivityLogEntry: of an old entry,
\* of the entry of the first request, and one no entry has
DeletedIds == {<< -1, "gm1" >>, << 1, "gm1" >>, << 0, "gm1" >>}

InitLogEdit ==
    \E n \in {0, 2} :
        StartWith({"gm1"}, InitShopConfig, [a \in Actors |-> InitGold], OldLog(n), {})

NextLogEdit ==
    \/ \E p \in Players, a \in Actors : PlayerRequest(MaxReqLog, p, "purchase", a, "tonic")
    \/ \E p \in Players, a \in Actors : PlayerRequest(MaxReqLog, p, "reserve", a, "relic")
    \/ \E k \in Keys : GMHandle(k)
    \/ \E k \in Keys : PurchaseResumeItem(k)
    \/ \E k \in Keys : PurchaseGoldUpdated(k)
    \/ \E k \in Keys : PurchaseGranted(k)
    \/ \E k \in Keys : PurchaseLogSaved(k)
    \/ \E k \in Keys : ReserveResumeItem(k)
    \/ \E k \in Keys : ReserveSaved(k)
    \/ \E k \in Keys : ReserveLogSaved(k)
    \/ \E g \in GMUsers, id \in DeletedIds : deleteActivityLogEntry(MaxLogOps, g, id)
    \/ \E g \in GMUsers : clearActivityLog(MaxLogOps, g)
    \/ \E n \in 1..MaxLogOps : LogWriteStored(n)

SpecLogEdit == InitLogEdit /\ [][NextLogEdit]_vars

(* ------------------------------------------------------------------ *)
(* One request against each entry an admin save can have stored: the   *)
(* blade's or the rope's entry is any of SavedEntries (or absent) and   *)
(* actor A's gold is any of GoldInputs                                  *)
(* ------------------------------------------------------------------ *)
SavedItems == {"blade", "rope"}
GoldInputs == {0, InitGold}

\* entries _onSaveConfig writes and purchases decrement
SavedEntries ==
    {Nothing} \cup
    {Just(Entry(av, Just(1), cp, cs)) :
        av \in {AVAILABILITY_TYPES.UNLIMITED, AVAILABILITY_TYPES.LIMITED,
                AVAILABILITY_TYPES.RESERVATION},
        cp \in {Nothing, Just(0), Just(2)},
        cs \in {Nothing, Just(0), Just(1)}}

InitSaved ==
    \E u \in SavedItems, e \in SavedEntries, g \in GoldInputs :
        StartWith({"gm1"}, [InitShopConfig EXCEPT !.items[u] = e],
                  [a \in Actors |-> IF a = "A" THEN g ELSE InitGold], << >>, {})

NextSaved ==
    \/ \E p \in Players, action \in {"purchase", "reserve"},
          a \in {"A", NoActor}, u \in SavedItems \cup {NoItem} :
          PlayerRequest(MaxReqSaved, p, action, a, u)
    \/ \E k \in Keys : GMHandle(k)
    \/ \E k \in Keys : PurchaseResumeItem(k)
    \/ \E k \in Keys : PurchaseGoldUpdated(k)
    \/ \E k \in Keys : PurchaseGranted(k)
    \/ \E k \in Keys : PurchaseConfigSaved(k)
    \/ \E k \in Keys : PurchaseLogSaved(k)
    \/ \E k \in Keys : ReserveResumeItem(k)
    \/ \E k \in Keys : ReserveSaved(k)
    \/ \E k \in Keys : ReserveLogSaved(k)

SpecSaved == InitSaved /\ [][NextSaved]_vars

(* ------------------------------------------------------------------ *)
(* The event bus of two sessions: listeners come and go, notifications *)
(* are emitted and delivered; the transport may or may not hand a      *)
(* message back to its sender                                          *)
(* ------------------------------------------------------------------ *)
InitBus ==
    /\ MarketStart({"gm1"}, InitShopConfig, [a \in Actors |-> InitGold], << >>, {})
    /\ hostShares
    /\ echoes \in BOOLEAN
    /\ BusStart

NextBus ==
    \/ \E s \in BusSessions : init(s)
    \/ \E s \in BusSessions, e \in BusEvents, c \in CallbackIds : on(s, e, c)
    \/ \E s \in BusSessions, e \in BusEvents, c \in CallbackIds : off(s, e, c)
    \/ \E s \in BusSessions, e \in BusEvents : emit(s, e)
    \/ \E r \in BusSessions : BusDeliver(r)

SpecBus == InitBus /\ [][NextBus]_vars

(* ------------------------------------------------------------------ *)
(* Requests whose awaited mutations may be rejected                    *)
(* ------------------------------------------------------------------ *)
NextFaults ==
    \/ \E p \in Players, action \in {"purchase", "reserve"},
          a \in ActorIds, u \in ItemUuids : PlayerRequest(MaxReqFaults, p, action, a, u)
    \/ \E g \in GMUsers, action \in {"purchase", "reserve"},
          a \in ActorIds, u \in ItemUuids : GMRequest(MaxReqFaults, g, action, a, u)
    \/ \E k \in Keys : GMHandle(k)
    \/ \E k \in Keys : PurchaseResumeItem(k)
    \/ \E k \in Keys : PurchaseGoldUpdated(k)
    \/ \E k \in Keys : PurchaseGranted(k)
    \/ \E k \in Keys : PurchaseConfigSaved(k)
    \/ \E k \in Keys : PurchaseLogSaved(k)
    \/ \E k \in Keys : ReserveResumeItem(k)
    \/ \E k \in Keys : ReserveSaved(k)
    \/ \E k \in Keys : ReserveLogSaved(k)
    \/ \E k \in Keys : CollaboratorRejects(k)

SpecFaults == Init /\ [][NextFaults]_vars

(* ------------------------------------------------------------------ *)
(* Purchases whose collaborators respond: every awaited mutation that  *)
(* is pending is eventually resolved; the GM may close the shop        *)
(* ------------------------------------------------------------------ *)
NextLive ==
    \/ \E p \in Players, u \in {"blade", "tonic"} :
          PlayerRequest(MaxReqLive, p, "purchase", "A", u)
    \/ \E k \in Keys : GMHandle(k)
    \/ \E k \in Keys : PurchaseResumeItem(k)
    \/ \E k \in Keys : PurchaseGoldUpdated(k)
    \/ \E k \in Keys : PurchaseGranted(k)
    \/ \E k \in Keys : PurchaseConfigSaved(k)
    \/ \E k \in Keys : PurchaseLogSaved(k)
    \/ \E g \in GMUsers : toggleShop(MaxGMOps, g)

CollaboratorsRespond ==
    \A k \in Keys :
        /\ WF_vars(PurchaseGoldUpdated(k))
        /\ WF_vars(PurchaseGranted(k))
        /\ WF_vars(PurchaseConfigSaved(k))
        /\ WF_vars(PurchaseLogSaved(k))

SpecLive == Init /\ [][NextLive]_vars /\ CollaboratorsRespond

(* ------------------------------------------------------------------ *)
(* The exported ledger function addReservation called on its own       *)
(* ------------------------------------------------------------------ *)
NextCalls ==
    \E g \in GMUsers, u \in {"relic", "blade", "rope"}, a \in Actors :
        addReservationCall(MaxCalls, g, u, a)

SpecCalls == Init /\ [][NextCalls]_vars

(* ------------------------------------------------------------------ *)
(* One purchase of the blade against any stored entry: the shopConfig  *)
(* setting is a free-form object, and getAvailableStock provides for   *)
(* entries that lack currentStock and quantity                         *)
(* ------------------------------------------------------------------ *)
\* entries as the setting can hold them: each of quantity and currentStock is
\* absent, null or a number
StoredEntries ==
    {Entry(av, q, Nothing, cs) :
        av \in {AVAILABILITY_TYPES.UNLIMITED, AVAILABILITY_TYPES.LIMITED},
        q \in {Undefined, Nothing, Just(1)},
        cs \in {Undefined, Nothing, Just(0), Just(1)}}

InitStored ==
    \E e \in StoredEntries :
        StartWith({"gm1"}, [InitShopConfig EXCEPT !.items["blade"] = Just(e)],
                  [a \in Actors |-> InitGold], << >>, {})

NextStock ==
    \/ \E p \in Players, a \in Actors :
          PlayerRequest(MaxReqStock, p, "purchase", a, "blade")
    \/ \E k \in Keys : GMHandle(k)
    \/ \E k \in Keys : PurchaseResumeItem(k)
    \/ \E k \in Keys : PurchaseGoldUpdated(k)
    \/ \E k \in Keys : PurchaseGranted(k)
    \/ \E k \in Keys : PurchaseConfigSaved(k)
    \/ \E k \in Keys : PurchaseLogSaved(k)

SpecStock == InitStored /\ [][NextStock]_vars

(* ------------------------------------------------------------------ *)
(* Properties                                                          *)
(* ------------------------------------------------------------------ *)
IsPurchase(k) == txn[k].pc # "idle" /\ Req(k).action = "purchase"
IsReserve(k) == txn[k].pc # "idle" /\ Req(k).action = "reserve"
Succeeded(k) == txn[k].pc = "done" /\ txn[k].result.success

\* items the saved configuration sells from a limited stock
InitLimited(u) ==
    /\ InitShopConfig.items[u] # Nothing
    /\ Val(InitShopConfig.items[u]).availability = AVAILABILITY_TYPES.LIMITED
InitStock(u) == Val(StockOf(Val(InitShopConfig.items[u])))

PurchasesOf(u) == {k \in Keys : IsPurchase(k) /\ Req(k).itemUuid = u}

\* C1: for every Limited item whose stock the GM has not changed, once the
\* purchaseItem calls for it have returned, getAvailableStock reports S - N
\* (S the starting stock, N the calls that returned success), and with N = S
\* the stock check rejects the next purchase as sold out.
C1_StockIsStartMinusSuccesses ==
    adminWrites = 0 =>
        \A u \in CatalogItems, s \in gms :
            (InitLimited(u) /\ \A k \in PurchasesOf(u) : txn[k].pc = "done") =>
                LET N == Cardinality({k \in PurchasesOf(u) : Succeeded(k)}) IN
                /\ getAvailableStock(getShopConfig(s), u) = Just(InitStock(u) - N)
                /\ N = InitStock(u) =>
                      SoldOutCheck(Val(getItemConfig(getShopConfig(s), u)))

\* C2: for a purchase of a Limited item no state between two steps has the
\* gold deducted (first write done) while the stock write is not yet stored
\* (third write done), or the reverse.
C2_DeductionAndStockTogether ==
    \A k \in Keys :
        (IsPurchase(k) /\ InFlight(txn[k]) /\ txn[k].cfgAt >= 0
         /\ Val(ObjAt(Sess(k), txn[k].cfgAt).items[Req(k).itemUuid]).availability
                = AVAILABILITY_TYPES.LIMITED)
        => ((txn[k].writes >= 1) <=> (txn[k].writes >= 3))

\* C3: in a GM session no two calls that target the same item or the same
\* actor are in progress at once.
C3_OverlappingCallsExclusive ==
    \A k1, k2 \in Keys :
        (k1 # k2 /\ Sess(k1) = Sess(k2) /\ InFlight(txn[k1]) /\ InFlight(txn[k2]))
        => /\ Req(k1).itemUuid # Req(k2).itemUuid
           /\ Req(k1).actorId # Req(k2).actorId

\* C4: the stored currentStock of every catalog entry is unset or an
\* integer >= 0.
C4_StockNeverNegative ==
    \A s \in GMUsers, u \in CatalogItems :
        (getShopConfig(s).items[u] # Nothing
         /\ Val(getShopConfig(s).items[u]).currentStock # Nothing)
        => Val(Val(getShopConfig(s).items[u]).currentStock) >= 0

\* C5: for every Limited item whose stock the GM has not changed, the number
\* of purchases that deducted the gold and granted the item never exceeds the
\* stock the item had.
C5_GrantsWithinStock ==
    adminWrites = 0 =>
        \A u \in CatalogItems :
            InitLimited(u) =>
                Cardinality({k \in PurchasesOf(u) : txn[k].writes >= 2}) <= InitStock(u)

\* C6: a call that began while the shop-open flag was false writes nothing
\* and does not succeed.
C6_NothingAcceptedWhileClosed ==
    \A k \in Keys :
        (txn[k].pc # "idle" /\ ~txn[k].openAtStart)
        => (txn[k].writes = 0 /\ ~txn[k].result.success
            /\ txn[k].pc \in {"awaitItem", "done"})

\* C7: the step at which purchaseItem returns a failure changes no balance,
\* inventory, configuration, reservation or log entry, and the call has
\* written nothing before it.
C7_FailedPurchaseWritesNothing ==
    [][\A k \in Keys :
          (txn[k].pc # "done" /\ txn'[k].pc = "done" /\ ~txn'[k].result.success
           /\ reqs'[k[1]].action = "purchase")
          => /\ txn'[k].writes = 0
             /\ txn'[k].result.message \in
                  {MsgActorNotFound, MsgItemNotFound, MsgItemNotConfigured,
                   MsgItemSoldOut, MsgNotEnoughGold}
             /\ UNCHANGED worldVars]_vars

\* a purchase failed for lack of gold and the actor's gold is what it was,
\* below the price
C7_Witness ==
    \E k \in Keys :
        /\ IsPurchase(k) /\ txn[k].pc = "done"
        /\ txn[k].result.message = MsgNotEnoughGold
        /\ gold[Req(k).actorId] < getItemPrice(Req(k).itemUuid,
                getItemConfig(getShopConfig(Sess(k)), Req(k).itemUuid))

ReservationModeIn(s, u) ==
    /\ u \in CatalogItems
    /\ getItemConfig(getShopConfig(s), u) # Nothing
    /\ Val(getItemConfig(getShopConfig(s), u)).availability
          = AVAILABILITY_TYPES.RESERVATION

ActorsOf(list) == {list[i].actorId : i \in 1..Len(list)}

\* C8: on a Reservation-mode item, reserveItem by an actor whose reservation
\* is in the map fails with AlreadyReserved and leaves map and log unchanged;
\* by a different actor, when the map holds one reservation, it records a
\* second one, so that the stored list holds two records, one per actor, and
\* the call returns success.
C8_DuplicateRejectedOtherAccepted ==
    [][\A k \in Keys :
          LET s == Sess(k)
              u == reqs[k[1]].itemUuid
              a == reqs[k[1]].actorId
              before == getReservations(s)[u]
          IN
          /\ (txn[k].pc = "awaitItem" /\ txn'[k].pc # "awaitItem"
              /\ reqs[k[1]].action = "reserve" /\ ReservationModeIn(s, u))
             => /\ a \in ActorsOf(before)
                   => /\ txn'[k].pc = "done"
                      /\ ~txn'[k].result.success
                      /\ txn'[k].result.message = MsgAlreadyReserved
                      /\ UNCHANGED << reservations, activityLog >>
                /\ (Len(before) = 1 /\ a \notin ActorsOf(before))
                   => /\ txn'[k].pc = "awaitReservations"
                      /\ Len(Val(txn'[k].arg)[u]) = 2
                      /\ ActorsOf(Val(txn'[k].arg)[u]) = ActorsOf(before) \cup {a}
          /\ (txn[k].pc = "awaitReservations" /\ txn'[k].pc # "awaitReservations")
             => /\ txn'[k].pc = "awaitLog"
                /\ \A g \in gms : reservations'[g] = Val(txn[k].arg)
          /\ (txn[k].pc = "awaitLog" /\ txn'[k].pc # "awaitLog"
              /\ reqs[k[1]].action = "reserve")
             => /\ txn'[k].pc = "done"
                /\ txn'[k].result.success]_vars

\* actor A reserved, A's second call failed with AlreadyReserved, another
\* actor's call succeeded, and the relic's list holds the two records
C8_Witness ==
    \E k1, k2, k3 \in Keys :
        /\ IsReserve(k1) /\ IsReserve(k2) /\ IsReserve(k3)
        /\ Req(k1).itemUuid = "relic" /\ Req(k2).itemUuid = "relic"
        /\ Req(k3).itemUuid = "relic"
        /\ Req(k1).actorId = Req(k2).actorId /\ Req(k3).actorId # Req(k1).actorId
        /\ Succeeded(k1) /\ Succeeded(k3)
        /\ txn[k2].pc = "done" /\ txn[k2].result.message = MsgAlreadyReserved
        /\ \A s \in gms : /\ Len(getReservations(s)["relic"]) = 2
                          /\ ActorsOf(getReservations(s)["relic"]) = Actors

\* C9: the reservation list of each item holds at most one reservation per
\* actor id.
C9_OneReservationPerActor ==
    \A s \in GMUsers, u \in CatalogItems :
        \A i, j \in 1..Len(getReservations(s)[u]) :
            i # j => getReservations(s)[u][i].actorId # getReservations(s)[u][j].actorId

\* two calls for the same actor and item overlapped, both passed the
\* already-reserved check and returned success, and the list holds one record
C9_Witness ==
    \E k1, k2 \in Keys :
        /\ k1 # k2 /\ IsReserve(k1) /\ IsReserve(k2)
        /\ Req(k1).itemUuid = Req(k2).itemUuid /\ Req(k1).actorId = Req(k2).actorId
        /\ Succeeded(k1) /\ Succeeded(k2)
        /\ \A s \in gms : Len(getReservations(s)[Req(k1).itemUuid]) = 1

\* C10: a request is executed by at most one session: purchaseItem or
\* reserveItem is called at most once for it.
C10_ExecutedOnce ==
    \A r \in 1..Len(reqs) :
        Cardinality({s \in GMUsers : txn[<<r, s>>].pc # "idle"}) <= 1

\* C11: for every request a player's session sent and the GM session
\* executed, once the result message has reached the requesting session,
\* that session has handled it (and it handles one result per request).
C11_RequesterHandlesItsResult ==
    \A m \in socket :
        (m.event \in ResultEvents /\ reqs[m.origin[1]].user \in Players
         /\ << m, reqs[m.origin[1]].user >> \in delivered)
        => /\ << reqs[m.origin[1]].user, m >> \in notified
           /\ Cardinality({n \in socket : n.event \in ResultEvents
                                          /\ n.origin[1] = m.origin[1]}) = 1

\* C12: a session acts on a purchaseResult / reserveResult message only if the
\* message's recipient tag equals the session's user id; every other session
\* that received the message has not acted on it.
C12_OnlyTaggedSessionActs ==
    /\ \A x \in notified : x[2].targetUser = Just(x[1]) /\ x[2].event \in ResultEvents
    /\ \A y \in delivered : y[1].targetUser # Just(y[2]) => << y[2], y[1] >> \notin notified

\* a result tagged with p1's id reached every session; p1's session acted on
\* it and no other did
C12_Witness ==
    \E m \in socket :
        /\ m.event \in ResultEvents /\ m.targetUser = Just("p1")
        /\ \A u \in Players \cup GMUsers : << m, u >> \in delivered
        /\ notified = {<< "p1", m >>}

\* C13: a player's purchase or reservation action only emits the request to
\* the GM sessions and changes no shared record; a player's session receiving
\* a message changes none either; every change of the shop configuration, the
\* reservation map or the activity log is a step of a call running in a GM
\* session.
C13_OnlyGMSessionsWrite ==
    [][/\ (Len(reqs') > Len(reqs) /\ reqs'[Len(reqs')].user \in Players)
          => /\ UNCHANGED << worldVars, txn, stale, socket >>
             /\ inbox' = inbox \cup {<< Len(reqs'), g >> : g \in gms}
       /\ delivered' # delivered => UNCHANGED worldVars
       /\ ~(UNCHANGED << shopConfig, reservations, activityLog >>)
          => \E k \in Keys : /\ k[2] \in gms
                             /\ InFlight(txn[k])
                             /\ txn'[k] # txn[k]]_vars

\* a player's request is on its way to the GM session and no shared record
\* has changed
C13_Witness ==
    \E r \in 1..Len(reqs) :
        /\ reqs[r].user \in Players
        /\ << r, "gm1" >> \in inbox
        /\ shopConfig = [s \in GMUsers |-> InitShopConfig]
        /\ activityLog = [s \in GMUsers |-> << >>]
        /\ \A s \in GMUsers, u \in CatalogItems : reservations[s][u] = << >>

\* the list addActivityLog builds from the log it read and the new entry when
\* the cap is respected
CappedAppend(read, entry) ==
    IF Len(read) >= LogCap THEN << entry >> \o SubSeq(read, 1, LogCap - 1)
    ELSE << entry >> \o read

\* C14: the activity log never holds more than 500 entries; an addActivityLog
\* call on a log of 500 entries writes the new entry followed by the first 499
\* of the log it read, in their order (the oldest, last, entry is dropped), and
\* on a shorter log the new entry followed by the whole log.
C14_LogCappedOldestEvicted ==
    /\ [](\A s \in GMUsers : Len(getActivityLog(s)) <= LogCap)
    /\ [][\A k \in Keys :
            (txn[k].pc # "awaitLog" /\ txn'[k].pc = "awaitLog")
            => /\ Val(txn'[k].arg)[1].id = k
               /\ Val(txn'[k].arg)
                    = CappedAppend(getActivityLog(Sess(k)), Val(txn'[k].arg)[1])
               /\ Len(Val(txn'[k].arg)) <= LogCap]_vars
    /\ [][\A k \in Keys :
            (txn[k].pc = "awaitLog" /\ txn'[k].pc = "done")
            => \A s \in gms : getActivityLog(s)' = Val(txn[k].arg)]_vars

\* the stored log holds 500 entries, the oldest last, and a call that read it
\* has built the list it is writing: 500 entries, its own first, the second
\* oldest of the stored ones last
C14_Witness ==
    \E k \in Keys :
        /\ txn[k].pc = "awaitLog"
        /\ Len(getActivityLog(Sess(k))) = LogCap
        /\ getActivityLog(Sess(k))[LogCap].id[1] = -LogCap
        /\ Len(Val(txn[k].arg)) = LogCap
        /\ Val(txn[k].arg)[1].id = k
        /\ Val(txn[k].arg)[2].id[1] = -1
        /\ Val(txn[k].arg)[LogCap].id[1] = -(LogCap - 1)

\* the call k buys an item whose entry it read as Unlimited
UnlimitedPurchase(k) ==
    /\ txn[k].pc \in {"awaitGold", "awaitGrant", "awaitLog"}
    /\ Req(k).action = "purchase"
    /\ Val(ObjAt(Sess(k), txn[k].cfgAt).items[Req(k).itemUuid]).availability
          = AVAILABILITY_TYPES.UNLIMITED

\* C15: a successful purchase of an Unlimited item lowers the actor's balance
\* by exactly the effective price when its balance write lands, changes the
\* shop configuration at none of its steps, and when it returns the activity
\* log holds exactly one entry of it, of type purchase, in front of the
\* entries the log held before.
C15_UnlimitedPurchaseEffect ==
    [][\A k \in Keys :
          UnlimitedPurchase(k) =>
            /\ (txn[k].pc = "awaitGold" /\ txn'[k].pc = "awaitGrant")
               => gold' = [gold EXCEPT ![Req(k).actorId] = @ - txn[k].price]
            /\ txn'[k] # txn[k] => UNCHANGED shopConfig
            /\ (txn[k].pc = "awaitLog" /\ txn'[k].pc = "done")
               => LET log == getActivityLog(Sess(k))'
                      old == IF hostShares THEN Tail(getActivityLog(Sess(k)))
                             ELSE getActivityLog(Sess(k))
                  IN  /\ txn'[k].result.success
                      /\ log[1].id = k /\ log[1].type = "purchase"
                      /\ Tail(log) = old]_vars

\* the failure purchaseItem must report for the request rq in session s, or
\* "" when every check passes: the first that applies, in the order actor,
\* item, entry, stock, funds
FirstFailure(s, rq) ==
    LET entry == getShopConfig(s).items[rq.itemUuid]
        stock == IF Val(entry).currentStock # Nothing THEN Val(entry).currentStock
                 ELSE Val(entry).quantity
        price == IF Val(entry).customPrice # Nothing THEN Val(Val(entry).customPrice)
                 ELSE IF BasePrice(rq.itemUuid) # Nothing THEN Val(BasePrice(rq.itemUuid))
                 ELSE 0
    IN  IF rq.actorId \notin Actors THEN MsgActorNotFound
        ELSE IF rq.itemUuid \notin CatalogItems THEN MsgItemNotFound
        ELSE IF entry = Nothing THEN MsgItemNotConfigured
        ELSE IF Val(entry).availability = AVAILABILITY_TYPES.LIMITED
                /\ stock # Nothing /\ Val(stock) <= 0 THEN MsgItemSoldOut
        ELSE IF gold[rq.actorId] < price THEN MsgNotEnoughGold
        ELSE ""

\* C16: purchaseItem reports the first failure that applies in the order
\* ActorNotFound, ItemNotFound, ItemNotConfigured, SoldOut, InsufficientFunds:
\* an unknown actor fails at once, the other checks run when the item is
\* resolved, and the call goes on to deduct only if none applies.
C16_FirstFailureReported ==
    [][\A k \in Keys :
          /\ (txn[k].pc = "idle" /\ txn'[k].pc # "idle"
              /\ reqs'[k[1]].action = "purchase")
             => IF reqs'[k[1]].actorId \notin Actors
                THEN txn'[k].pc = "done" /\ txn'[k].result.message = MsgActorNotFound
                ELSE txn'[k].pc = "awaitItem"
          /\ (txn[k].pc = "awaitItem" /\ txn'[k].pc # "awaitItem"
              /\ reqs[k[1]].action = "purchase")
             => IF FirstFailure(Sess(k), Req(k)) = ""
                THEN txn'[k].pc = "awaitGold"
                ELSE /\ txn'[k].pc = "done"
                     /\ ~txn'[k].result.success
                     /\ txn'[k].result.message = FirstFailure(Sess(k), Req(k))]_vars

\* a Limited entry with stock 0 and an actor whose gold is below the price:
\* the purchase failed as sold out
C16_Witness ==
    \E k \in Keys :
        /\ txn[k].pc = "done" /\ Req(k).action = "purchase"
        /\ txn[k].result.message = MsgItemSoldOut
        /\ Req(k).itemUuid = "blade"
        /\ Val(getShopConfig(Sess(k)).items["blade"]).currentStock = Just(0)
        /\ Val(getShopConfig(Sess(k)).items["blade"]).customPrice = Just(2)
        /\ gold[Req(k).actorId] = 0

\* the purchases that passed the price computation
Priced(k) ==
    /\ txn[k].pc \in {"awaitGold", "awaitGrant", "awaitConfig", "awaitLog"}
    /\ Req(k).action = "purchase"

\* C17: the price of an item is its entry's custom price whenever one is set
\* (0 included), whatever the catalog base price; otherwise the catalog base
\* price; and 0 when there is neither. A purchase charges that price.
C17_EffectivePrice ==
    /\ \A s \in gms, u \in CatalogItems :
          LET entry == getShopConfig(s).items[u]
              p == getItemPrice(u, entry)
          IN  IF entry # Nothing /\ Val(entry).customPrice # Nothing
              THEN p = Val(Val(entry).customPrice)
              ELSE IF BasePrice(u) # Nothing THEN p = Val(BasePrice(u))
              ELSE p = 0
    /\ \A k \in Keys :
          Priced(k) =>
            LET cp == Val(getShopConfig(Sess(k)).items[Req(k).itemUuid]).customPrice
                base == BasePrice(Req(k).itemUuid)
            IN  txn[k].price = IF cp # Nothing THEN Val(cp)
                               ELSE IF base # Nothing THEN Val(base) ELSE 0

\* the blade (base price 1) with custom price 0 is being bought for 0
C17_Witness ==
    \E k \in Keys :
        /\ Priced(k) /\ Req(k).itemUuid = "blade"
        /\ BasePrice("blade") = Just(1)
        /\ Val(getShopConfig(Sess(k)).items["blade"]).customPrice = Just(0)
        /\ txn[k].price = 0

\* the entry of the item of request k in the session's stored configuration
EntryOf(k) == getShopConfig(Sess(k)).items[Req(k).itemUuid]

\* C18: for an Unlimited entry and for an item without entry the available
\* stock is reported unbounded (null) whatever currentStock and quantity are
\* stored, and no purchase of an Unlimited item fails as sold out.
C18_UnlimitedIsUnbounded ==
    /\ \A s \in gms, u \in ItemUuids :
          LET entry == getItemConfig(getShopConfig(s), u) IN
          (entry = Nothing \/ Val(entry).availability = AVAILABILITY_TYPES.UNLIMITED)
            => getAvailableStock(getShopConfig(s), u) = Nothing
    /\ \A k \in Keys :
          (txn[k].pc = "done" /\ Req(k).action = "purchase"
           /\ Req(k).itemUuid \in CatalogItems /\ EntryOf(k) # Nothing
           /\ Val(EntryOf(k)).availability = AVAILABILITY_TYPES.UNLIMITED)
            => txn[k].result.message # MsgItemSoldOut

\* an Unlimited blade whose stored currentStock is 0 has been bought
C18_Witness ==
    \E k \in Keys :
        /\ txn[k].pc = "done" /\ Req(k).action = "purchase"
        /\ Req(k).itemUuid = "blade" /\ EntryOf(k) # Nothing
        /\ Val(EntryOf(k)).availability = AVAILABILITY_TYPES.UNLIMITED
        /\ Val(EntryOf(k)).currentStock = Just(0)
        /\ Val(EntryOf(k)).quantity = Just(1)
        /\ txn[k].result.success

\* the reserveItem calls past their checks
Reserving(k) ==
    /\ txn[k].pc \in {"awaitReservations", "awaitLog"}
    /\ Req(k).action = "reserve"

\* every record of the map before is a record of the map after
RecordsKept(before, after) ==
    \A u \in DOMAIN before :
        \A i \in 1..Len(before[u]) :
            \E j \in 1..Len(after[u]) : after[u][j] = before[u][i]

\* C19: a successful reserveItem leaves the actors' gold and inventories and
\* the shop configuration as they are; its reservation write adds the record
\* of its item and actor to the stored map and removes none; its log write
\* adds its one entry of type reservation in front of the stored log.
C19_ReserveChangesOnlyMapAndLog ==
    [][\A k \in Keys :
          Reserving(k) =>
            /\ txn'[k] # txn[k] => UNCHANGED << gold, inventory, shopConfig >>
            /\ (txn[k].pc = "awaitReservations" /\ txn'[k].pc = "awaitLog")
               => /\ RecordsKept(getReservations(Sess(k)), getReservations(Sess(k))')
                  /\ ExistingReservation(getReservations(Sess(k))',
                                         Req(k).itemUuid, Req(k).actorId)
            /\ (txn[k].pc = "awaitLog" /\ txn'[k].pc = "done")
               => LET log == getActivityLog(Sess(k))'
                      old == IF hostShares THEN Tail(getActivityLog(Sess(k)))
                             ELSE getActivityLog(Sess(k))
                  IN  /\ txn'[k].result.success
                      /\ log[1].id = k /\ log[1].type = "reservation"
                      /\ Tail(log) = old]_vars

\* reserveItem call k is about to test the entry of a resolved item that is
\* not in Reservation mode or has no entry
RefusedReserve(k) ==
    /\ txn[k].pc = "awaitItem"
    /\ Req(k).action = "reserve"
    /\ Req(k).itemUuid \in CatalogItems
    /\ \/ EntryOf(k) = Nothing
       \/ Val(EntryOf(k)).availability # AVAILABILITY_TYPES.RESERVATION

\* the call ends as a failure with the message and writes nothing
RefusedWith(k, msg) ==
    /\ txn'[k].pc = "done"
    /\ ~txn'[k].result.success
    /\ txn'[k].result.message = msg
    /\ txn'[k].writes = 0
    /\ UNCHANGED << reservations, activityLog, shopConfig, gold, inventory >>

\* C20 as stated: reserveItem fails with ItemNotConfigured when the item has
\* no shop entry and with the distinct NotReservable failure when the entry
\* is Unlimited or Limited; in both cases nothing is recorded.
C20_DistinctFailures ==
    [][\A k \in Keys :
          (RefusedReserve(k) /\ txn'[k] # txn[k]) =>
              IF EntryOf(k) = Nothing
              THEN RefusedWith(k, MsgItemNotConfigured)
              ELSE RefusedWith(k, MsgNotReservable)]_vars

\* C20 amended: reserveItem fails with the one NotReservable failure both
\* when the item has no shop entry and when its entry is Unlimited or
\* Limited; in both cases nothing is recorded.
C20_OneFailureForBoth ==
    [][\A k \in Keys :
          (RefusedReserve(k) /\ txn'[k] # txn[k]) =>
              RefusedWith(k, MsgNotReservable)]_vars

\* a reservation of the rope, which has no entry, was refused as not
\* reservable and the map and the log are empty
C20_Witness ==
    \E k \in Keys :
        /\ txn[k].pc = "done" /\ Req(k).action = "reserve"
        /\ Req(k).itemUuid = "rope" /\ Req(k).actorId = "A"
        /\ EntryOf(k) = Nothing
        /\ txn[k].result.message = MsgNotReservable
        /\ getReservations(Sess(k))["rope"] = << >>
        /\ getActivityLog(Sess(k)) = << >>

\* the number of occurrences of x in the sequence
CountIn(seq, x) == Cardinality({i \in 1..Len(seq) : seq[i] = x})

\* C21: when a listener raises an error while a notification is dispatched,
\* the error is caught: every listener registered for the notification is
\* invoked all the same, in the emitting session and in a session the
\* transport delivers to, and no error reaches the caller of emit.
C21_ListenerErrorsCaught ==
    [][/\ Len(emitted') > Len(emitted) =>
            LET n == Len(emitted')
                s == emitted'[n].session
            IN  /\ n \notin escaped'
                /\ \A c \in CallbackIds :
                      CountIn(calls'[s], << n, c >>) = CountIn(emitted'[n].listeners, c)
       /\ \A r \in inited, n \in 1..Len(emitted) :
            (<< n, r >> \in wire /\ << n, r >> \notin wire') =>
                \A c \in CallbackIds :
                    CountIn(calls'[r], << n, c >>)
                      = CountIn(calls[r], << n, c >>)
                        + CountIn(callbacks[r][emitted[n].event], c)]_vars

\* a notification was emitted to a throwing listener registered before
\* another one: the other one ran and emit returned normally
C21_Witness ==
    \E n \in 1..Len(emitted) :
        /\ emitted[n].listeners = << "faulty", "render" >>
        /\ Throws("faulty")
        /\ CountIn(calls[emitted[n].session], << n, "render" >>) = 1
        /\ n \notin escaped

\* C22: every purchaseItem or reserveItem call that has ended has ended with
\* a {success, message} result, also when a mutation it awaited failed; none
\* ends with an exception thrown to its caller.
C22_AlwaysStructuredResult ==
    \A k \in Keys :
        (txn[k].pc # "idle" /\ ~InFlight(txn[k])) =>
            /\ txn[k].pc = "done"
            /\ txn[k].result.message # ""

\* purchase k has deducted the price
Deducted(k) == txn[k].pc = "awaitGrant"

\* purchase k has returned success after granting the item, storing the
\* decremented stock if its item is Limited, and storing its log entry
Completed(k) ==
    /\ txn[k].pc = "done"
    /\ txn[k].result.success
    /\ inventory[Req(k).actorId][Req(k).itemUuid] >= 1
    /\ getActivityLog(Sess(k))[1].id = k
    /\ getActivityLog(Sess(k))[1].type = "purchase"
    /\ txn[k].writes = IF InitLimited(Req(k).itemUuid) THEN 4 ELSE 3
    /\ InitLimited(Req(k).itemUuid) => txn[k].result.newStock # Nothing

\* C23: once a purchase has deducted the price it runs to completion, whatever
\* else happens (other purchases, the shop being closed): the item is granted,
\* a Limited item's decremented stock is stored, its log entry is stored and
\* it returns success, provided the collaborators respond.
C23_DeductedPurchaseCompletes ==
    \A k \in Keys : Deducted(k) ~> Completed(k)

\* a purchase of the Limited blade has run to completion after the shop was
\* closed
C23_Witness ==
    \E k \in Keys :
        /\ Completed(k) /\ Req(k).itemUuid = "blade"
        /\ ~isShopOpen

\* C24 as stated: addReservation appends a record only if none exists for
\* the same item and actor and returns whether it did, so that no list ever
\* holds two records of one actor.
C24_AppendsOnlyIfAbsent ==
    /\ \A s \in gms, u \in CatalogItems :
          \A i, j \in 1..Len(getReservations(s)[u]) :
              i # j => getReservations(s)[u][i].actorId # getReservations(s)[u][j].actorId
    /\ gmOps > 0 => returned \in {Just(TRUE), Just(FALSE)}

\* C24 amended: addReservation appends a record for the item and actor
\* whether or not one exists already, changes no other list, and returns no
\* value.
C24_AppendsAlways ==
    [][gmOps' # gmOps =>
          /\ returned' = Nothing
          /\ \A s \in gms :
                \E u \in CatalogItems, a \in Actors :
                    /\ getReservations(s)'[u]
                         = Append(getReservations(s)[u],
                                  [actorId |-> a, playerName |-> OwnerName(a)])
                    /\ \A v \in CatalogItems \ {u} :
                          getReservations(s)'[v] = getReservations(s)[v]]_vars

\* addReservation was called twice for the relic and actor A: two records
C24_Witness ==
    \E s \in gms :
        /\ Len(getReservations(s)["relic"]) = 2
        /\ getReservations(s)["relic"][1].actorId = "A"
        /\ getReservations(s)["relic"][2].actorId = "A"
        /\ returned = Nothing

\* session g's admin form is saved in this step: its configUpdated
\* notification is emitted
Saves(g) ==
    /\ manager[g] # Nothing
    /\ \E m \in socket' \ socket : m.event = "configUpdated" /\ m.origin = << 0, g >>

\* C25: an admin save stores exactly what the form holds: the selected
\* compendiums, and for each item an entry only if the form has a row for it,
\* with the row's availability (Unlimited if unset), quantity (1 if unset or
\* 0), custom price and stock (the row's quantity if it has no stock); no
\* value of the configuration stored before survives.
C25_SaveReplacesConfig ==
    [][\A g \in gms :
          Saves(g) =>
            \A s \in gms :
              /\ getShopConfig(s)'.compendiums = Val(manager[g]).selectedCompendiums
              /\ \A u \in CatalogItems :
                    LET row == Val(manager[g]).itemConfigs[u]
                        e == getShopConfig(s)'.items[u]
                    IN  IF row = Nothing THEN e = Nothing
                        ELSE /\ e # Nothing
                             /\ Val(e).availability =
                                  (IF Val(row).availability = Nothing
                                   THEN AVAILABILITY_TYPES.UNLIMITED
                                   ELSE Val(Val(row).availability))
                             /\ Val(e).quantity =
                                  (IF Val(row).quantity \in {Nothing, Just(0)} THEN Just(1)
                                   ELSE Val(row).quantity)
                             /\ Val(e).customPrice = Val(row).customPrice
                             /\ Val(e).currentStock =
                                  (IF Val(row).currentStock # Nothing
                                   THEN Val(row).currentStock
                                   ELSE Val(row).quantity)]_vars

\* the form was loaded with the blade's stock at 1, a purchase stored stock
\* 0, and the form was saved: the stored stock is the form's 1
C25_Witness ==
    /\ adminWrites = 1
    /\ \E m \in socket : m.event = "configUpdated"
    /\ Val(Val(manager["gm1"]).itemConfigs["blade"]).currentStock = Just(1)
    /\ Val(getShopConfig("gm1").items["blade"]).currentStock = Just(1)
    /\ \E k \in Keys :
          /\ txn[k].pc = "done" /\ Req(k).itemUuid = "blade"
          /\ txn[k].result.success /\ txn[k].result.newStock = Just(0)

\* the prices of the purchases among the given calls that returned success
RECURSIVE Spent(_)
Spent(keys) ==
    IF keys = {} THEN 0
    ELSE LET k == CHOOSE x \in keys : TRUE
         IN  getItemPrice(Req(k).itemUuid, EntryOf(k)) + Spent(keys \ {k})

\* the purchases for actor a that returned success
BoughtBy(a) ==
    {k \in Keys : IsPurchase(k) /\ Succeeded(k) /\ Req(k).actorId = a}

\* C26: whatever the interleaving of the purchases for an actor, the balance
\* is never negative, and once every call has returned it is the initial
\* balance minus the prices of the successful purchases.
C26_NoDeductionLost ==
    \A a \in Actors :
        /\ gold[a] >= 0
        /\ (\A k \in Keys : ~InFlight(txn[k]))
              => gold[a] = InitGold - Spent(BoughtBy(a))

\* C27: when the GM saves the admin form without having edited anything, the
\* stored currentStock of every Limited item is after the save what it was
\* immediately before it, also when purchases have lowered it since the form
\* was loaded.
C27_SaveKeepsStock ==
    [][\A g \in gms :
          (Saves(g) /\ gmOps = 0) =>
            \A u \in CatalogItems :
              LET before == getShopConfig(g).items[u]
                  after == getShopConfig(g)'.items[u]
              IN  (before # Nothing
                   /\ Val(before).availability = AVAILABILITY_TYPES.LIMITED)
                  => /\ after # Nothing
                     /\ Val(after).currentStock = Val(before).currentStock]_vars

\* C28: the configuration write of a Limited purchase changes, relative to the
\* configuration stored at the moment of the write, only the currentStock of
\* the purchased item: compendiums, the other entries and the other fields of
\* the entry are stored as they were, so a save or stock update completed
\* while the purchase was suspended is not undone.
C28_PurchaseWritesOnlyItsStock ==
    [][\A k \in Keys :
          (txn[k].pc = "awaitConfig" /\ txn'[k].pc = "awaitLog") =>
            LET before == getShopConfig(Sess(k))
                after == getShopConfig(Sess(k))'
                item == Req(k).itemUuid
            IN  /\ after.compendiums = before.compendiums
                /\ \A u \in CatalogItems \ {item} : after.items[u] = before.items[u]
                /\ before.items[item] # Nothing
                /\ after.items[item] # Nothing
                /\ Val(after.items[item]).availability = Val(before.items[item]).availability
                /\ Val(after.items[item]).quantity = Val(before.items[item]).quantity
                /\ Val(after.items[item]).customPrice = Val(before.items[item]).customPrice]_vars

\* the calls that returned success
Successes == {k \in Keys : Succeeded(k)}

\* C29: with no deletion, clear or eviction, once every call has returned the
\* activity log holds as many entries as calls returned success, one entry
\* for each of them, whatever the interleaving; failed calls have none.
C29_OneLogEntryPerSuccess ==
    (\A k \in Keys : ~InFlight(txn[k])) =>
        \A s \in gms :
            /\ Len(getActivityLog(s)) = Cardinality(Successes)
            /\ \A k \in Successes :
                  \E i \in 1..Len(getActivityLog(s)) : getActivityLog(s)[i].id = k

\* C30: for each emit call, every listener registered in the emitting session
\* for the event when emit was called has been invoked for it exactly once per
\* registration: once when emit returns, and never again afterwards, whatever
\* the transport delivers.
C30_LocalListenersOnce ==
    \A n \in 1..Len(emitted) :
        \A c \in CallbackIds :
            CountIn(calls[emitted[n].session], << n, c >>)
                = CountIn(emitted[n].listeners, c)

\* C31: an itemPurchased notification is emitted only for a purchase that
\* returned success, when the log holds that purchase's entry, and its value is
\* the stock the stored configuration holds for the item at that moment (null
\* when the item is not limited); a failed purchase emits none.
C31_PurchasedNotification ==
    [][\A m \in socket' \ socket :
          m.event = "itemPurchased" =>
              LET k == m.origin
                  s == Sess(k)
                  stored == getItemConfig(shopConfig'[s], m.itemUuid)
              IN  /\ reqs'[k[1]].action = "purchase"
                  /\ txn'[k].pc = "done"
                  /\ txn'[k].result.success
                  /\ \E i \in 1..Len(activityLog'[s]) : activityLog'[s][i].id = k
                  /\ stored # Nothing
                  /\ m.value = IF Val(stored).availability = AVAILABILITY_TYPES.LIMITED
                               THEN Val(stored).currentStock ELSE Nothing]_vars

\* the stock check of the purchase of a limited item is made in this step
StockChecked(k) ==
    /\ txn[k].pc = "awaitItem"
    /\ txn'[k].pc # "awaitItem"
    /\ Req(k).action = "purchase"
    /\ Req(k).itemUuid \in CatalogItems
    /\ EntryOf(k) # Nothing
    /\ Val(EntryOf(k)).availability = AVAILABILITY_TYPES.LIMITED

GrantFailed(k) ==
    /\ txn[k].pc = "threw"
    /\ Req(k).action = "purchase"
    /\ txn[k].writes = 1

\* C33: when the inventory grant fails after the deduction, nothing is
\* compensated: the failure leaves the actor's gold as the deduction made it
\* and changes neither inventory, stock nor log; the call takes no further
\* step, and the log never holds an entry of it nor the channel a message.
C33_NoCompensation ==
    /\ [][\A k \in Keys :
             (txn[k].pc = "awaitGrant" /\ txn'[k].pc = "threw") =>
                 UNCHANGED << gold, inventory, shopConfig, reservations,
                              activityLog, socket >>]_vars
    /\ [][\A k \in Keys : GrantFailed(k) => txn'[k] = txn[k]]_vars
    /\ [](\A k \in Keys :
             GrantFailed(k) =>
                 /\ \A s \in gms : findIndex(getActivityLog(s), k) = 0
                 /\ \A m \in socket : m.origin # k)

\* the grant of the blade (price 1) failed: the actor is left with 2 gold and
\* no blade, the blade's stock is still 1
C33_Witness ==
    \E k \in Keys :
        /\ txn[k].pc = "threw" /\ txn[k].writes = 1
        /\ Req(k).itemUuid = "blade"
        /\ txn[k].price = 1
        /\ gold[Req(k).actorId] = InitGold - 1
        /\ inventory[Req(k).actorId]["blade"] = 0
        /\ Val(getShopConfig(Sess(k)).items["blade"]).currentStock = Just(1)

\* C34: the activity log changes only by a new entry put in front of the
\* entries it held, which stay as they were (the oldest leaves at the cap), by
\* a deletion, which removes exactly the entry with the given id and keeps the
\* order of the rest, or by a clear, which leaves it empty; a deletion of an id
\* the log does not hold changes nothing.
C34_LogAppendOnlyButDeleteAndClear ==
    [][\A s \in gms :
          LET old == getActivityLog(s)
              new == getActivityLog(s)'
              stored == logWrites \ logWrites'
          IN  /\ new # old =>
                    \/ /\ Len(new) > 0
                       /\ findIndex(old, new[1].id) = 0
                       /\ new = CappedAppend(old, new[1])
                    \/ \E w \in logWrites \cup logWrites' :
                          /\ w.op = "delete"
                          /\ findIndex(old, w.entryId) > 0
                          /\ new = Splice(old, findIndex(old, w.entryId))
                    \/ \E w \in logWrites \cup logWrites' :
                          w.op = "clear" /\ new = << >>
              /\ \A w \in stored :
                    /\ w.op = "delete" => findIndex(new, w.entryId) = 0
                    /\ w.op = "clear" => new = << >>
              /\ (gmOps' # gmOps /\ logWrites' = logWrites) => new = old]_vars

\* request n reached no GM session: no session has it to handle and no
\* purchaseItem / reserveItem call was made for it
Unheard(n) ==
    \A s \in GMUsers : << n, s >> \notin inbox /\ txn[<< n, s >>].pc = "idle"

\* C35: a request emitted while no GM session is connected reaches none, and
\* a request that reached none never reaches one later, also when a GM session
\* connects; no result or notification exists for it, and as long as no
\* request reached a GM session the gold, the inventories, the stock, the
\* reservations and the activity log are as they were.
C35_RequestWithoutGMIsLost ==
    /\ [][\A n \in 1..Len(reqs') :
             ((n > Len(reqs) /\ gms = {}) \/ (n <= Len(reqs) /\ Unheard(n)))
                => Unheard(n)']_vars
    /\ [](\A m \in socket : ~Unheard(m.origin[1]))
    /\ []((\A n \in 1..Len(reqs) : Unheard(n)) =>
             /\ notified = {}
             /\ gold = [a \in Actors |-> InitGold]
             /\ inventory = [a \in Actors |-> [u \in CatalogItems |-> 0]]
             /\ \A s \in GMUsers :
                   /\ getShopConfig(s) = InitShopConfig
                   /\ getActivityLog(s) = << >>
                   /\ \A u \in CatalogItems : getReservations(s)[u] = << >>)

\* the first request was made with no GM session connected; gm1 connected
\* and served the second request, while the first is still without a call,
\* a result or an effect: A bought nothing but the one blade of request 2
C35_Witness ==
    /\ Len(reqs) = 2
    /\ gms = {"gm1"}
    /\ Unheard(1)
    /\ reqs[1].action = "reserve" /\ reqs[1].itemUuid = "relic"
    /\ reqs[2].action = "purchase" /\ reqs[2].itemUuid = "blade"
    /\ txn[<< 2, "gm1" >>].pc = "done"
    /\ txn[<< 2, "gm1" >>].result.success
    /\ \A m \in socket : m.origin = << 2, "gm1" >>
    /\ getReservations("gm1")["relic"] = << >>

\* C36: off(event, callback) removes one registration of the callback for the
\* event and leaves the other callbacks of the event and the listeners of the
\* other events as they are; only when the callback is registered for the event
\* does it change anything; and a dispatch invokes only callbacks that are
\* registered for the event at that moment, so a callback registered once is
\* not invoked after its off.
C36_OffRemovesOneRegistration ==
    [][/\ callbacks' # callbacks =>
            \A s \in BusSessions, e \in BusEvents, c \in CallbackIds :
                off(s, e, c) =>
                    /\ CountIn(callbacks[s][e], c) > 0
                    /\ CountIn(callbacks'[s][e], c) = CountIn(callbacks[s][e], c) - 1
                    /\ \A c2 \in CallbackIds \ {c} :
                          CountIn(callbacks'[s][e], c2) = CountIn(callbacks[s][e], c2)
                    /\ \A s2 \in BusSessions, e2 \in BusEvents :
                          << s2, e2 >> # << s, e >>
                              => callbacks'[s2][e2] = callbacks[s2][e2]
       /\ calls' # calls =>
            \A s \in BusSessions :
                \A i \in (Len(calls[s]) + 1)..Len(calls'[s]) :
                    CountIn(callbacks[s][emitted'[calls'[s][i][1]].event],
                            calls'[s][i][2]) > 0]_vars

\* gm1 emitted a notification while only `render` was registered for it, and
\* `render` ran; when the transport delivered the message to gm1 afterwards
\* `faulty` ran and `render` did not: it had been removed by off in between
C36_Witness ==
    /\ Len(emitted) = 1
    /\ emitted[1].session = "gm1"
    /\ emitted[1].listeners = << "render" >>
    /\ calls["gm1"] = << << 1, "render" >>, << 1, "faulty" >> >>
    /\ callbacks["gm1"][emitted[1].event] = << "faulty" >>

====
